---- MODULE Spec2Model ----
(***************************************************************************)
(* Verification model of the spectrogram visualizer:                       *)
(*   - Circular2DDataBuffer (services/spectrogram-render.ts)               *)
(*   - SpectrogramGPURenderer.updateSpectrogram / resizeCanvas             *)
(*   - SpectrogramVisualizer / SpectrogramManager worklet path and the     *)
(*     helper worker pool (services/index.ts, services/worker-util.ts)     *)
(* JavaScript arrays are 0-based; they are modelled as TLA+ sequences, so   *)
(* JS index j is sequence index j + 1.                                     *)
(***************************************************************************)
EXTENDS Integers, Sequences, FiniteSets, TLC

\* ------------------------------------------------------------------ bounds
MaxCols == 3
MaxRows == 2
MaxElementSize == 2
MaxBatch == 2
MaxExtra == 1
MaxLog == 7
MaxBlocks == 3
MaxLiveBlocks == 2
MaxWorkers == 2
MaxSessions == 2
MaxAttempts == 3
ChunkSize == 2
MaxCapacity == 6
NumLabels == 4
MaxSamples == 6
MaxWindowSize == 5
MaxStepSize == 4
MaxSamplesLength == 7
MaxSamplesStart == 1
\* the default window and step of generateSpectrogram, and the length of the
\* sample array of its unit test
SPECTROGRAM_WINDOW_SIZE == 4096
SPECTROGRAM_WINDOW_STEPSIZE == 1024
TestSamplesLength == 5
MaxUpdates == 2
MaxFlatCapacity == 3
MaxFlatLength == 4
MaxShifts == 2
MaxFrames == 2
MaxContrast == 12
\* applied render values are fixed-point numbers of FixedPoint units per 1.0;
\* stepTowards' snap distance 1e-9 is below that resolution and is taken as
\* StepEpsilon units, the least distance at which halving still moves a value
FixedPoint == 64
StepEpsilon == 2
PipeColumns == 2
PipeWindowSize == 2
PipeStepSize == 1

\* processor.ts: options?.processorOptions.numberOfChannels || 2 (App has two canvases)
NumberOfChannels == 2

\* lastSpectrogramStart: number | null = null
NULL == 0 - 1

VARIABLES
  buf,        \* the Circular2DDataBuffer object
  rend,       \* the SpectrogramGPURenderer fields that updateSpectrogram uses
  log,        \* history: every column handed to enqueue, in order
  epoch,      \* history: Len(log) when the buffer was last empty (constructed or cleared)
  enqOnly,    \* history: only enqueue has been called since the buffer was empty
  sinceUpd,   \* history: what happened to the buffer since the last updateSpectrogram
  lastWrites, \* history: the texture writes issued by the last updateSpectrogram
  lastOp,     \* history: the last operation and its arguments
  pre,        \* history: the buffer before the last buffer operation, and the operation before it
  portQueue,    \* worklet -> main thread: posted messages not yet handled by port.onmessage
  posted,       \* number of messages the worklet has posted
  WORKER_POOL,  \* worker-util.ts WORKER_POOL: one {busy} per helper worker
  WORKER_QUEUE, \* worker-util.ts WORKER_QUEUE: the tasks waiting for a worker, oldest first
  onmessage,    \* worker.onmessage on the main thread: the task whose handler is installed
  inbox,        \* main thread -> worker: the request the worker has been sent
  outbox,       \* worker -> main thread: the response the worker has posted
  visualizers,  \* per channel: the SpectrogramVisualizer's spectrogramBuffer and imageDirty
  enqueuedBlocks, \* history, per channel: the blocks whose columns were enqueued, in order
  rejected,     \* history, per channel: the blocks whose updateSpectrogramBuffer promise rejected
  uploaded,     \* history, per channel: how many enqueued blocks the last updateSpectrogram saw
  worklet,      \* per session: the ChannelBufferProcessor's isStart and isStop
  stopCallback, \* SpectrogramManager.stopCallback: the session it stops, or NULL
  stopPort,     \* main thread -> worklet: the sessions whose "stop" message is in flight
  enqueuedAfterStop, \* history: the [channel, session, block] enqueued after the session's stop()
  playState,    \* App.tsx playState
  setupStep,    \* the await a pending setup is suspended at, "idle", or its rejection once reported
  attempts,     \* number of setups started
  mediaStreams, \* the acquired microphone streams whose tracks are live, by attempt
  sessionStream, \* per session: the attempt whose microphone stream feeds it (0: an audio file)
  proc,         \* a ChannelBufferProcessor with its channelBuffers
  tick,         \* the label of the next chunk the audio thread delivers
  lastPost,     \* the message the last process() call posted, or <<>>
  lastActive,   \* history: the number of channels the last process() call pushed to
  recent,       \* history, per channel: the newest samples pushed (at most MaxCapacity)
  unposted,     \* history, per channel: how many of the newest chunks no message has carried
  lostChunk,    \* history: the channels that evicted a chunk no message had carried
  total,        \* history, per channel: samples pushed so far, counted up to MaxCapacity
  ring,         \* a depppCircularDataBuffer / deppCircularDataBuffer (chunk list, maxSize, currentSize)
  ringOp,       \* history: the last operation on ring, what it returned and the ring before it
  nextSample,   \* the value of the next sample handed to ring
  call,         \* one call of generateSpectrogram: its arguments and, once made, its result
  gpu,          \* the SpectrogramGPURenderer fields behind the render parameters
  gpuOp,        \* history: the last call on gpu, its argument, the lookup textures it wrote
  wk,           \* one queueTask request: the message, the worker's responses, the task's outcome
  flat,         \* a depCircularDataBuffer (buffer, maxSize, head, currentSize)
  flatOp,       \* history: the last operation on flat, its argument, what it returned, flat before it
  flatNext      \* the value of the next sample handed to flat

unitVars == <<buf, rend, log, epoch, enqOnly, sinceUpd, lastWrites, lastOp, pre>>
pipeVars == <<portQueue, posted, WORKER_POOL, WORKER_QUEUE, onmessage, inbox, outbox,
              visualizers, enqueuedBlocks, rejected, uploaded>>
sessionVars == <<worklet, stopCallback, stopPort, enqueuedAfterStop>>
uiVars == <<playState, setupStep, attempts, mediaStreams, sessionStream>>
procVars == <<proc, tick, lastPost, lastActive, recent, unposted, lostChunk, total>>
ringVars == <<ring, ringOp, nextSample>>
genVars == <<call>>
paramVars == <<gpu, gpuOp>>
workerVars == <<wk>>
flatVars == <<flat, flatOp, flatNext>>
restVars == <<procVars, ringVars, genVars, paramVars, workerVars, flatVars>>
vars == <<unitVars, pipeVars, sessionVars, uiVars, restVars>>

\* ------------------------------------------------------------ JS helpers
Min(a, b) == IF a < b THEN a ELSE b
Max(a, b) == IF a > b THEN a ELSE b

\* JavaScript % takes the sign of the dividend
JsRem(x, y) == IF x >= 0 THEN x % y ELSE 0 - ((0 - x) % y)

mod(x, y) == JsRem(JsRem(x, y) + y, y)

\* new TypedArray(n): n zeros
Zeros(n) == [j \in 1..n |-> 0]

\* TypedArray.prototype.subarray(begin, end): indices are clamped to the array
subarray(a, begin, end) ==
  LET b == Min(Max(begin, 0), Len(a))
      e == Min(Max(end, 0), Len(a))
  IN IF e > b THEN SubSeq(a, b + 1, e) ELSE <<>>

\* TypedArray.prototype.set(src, offset); a source that does not fit throws
\* RangeError and leaves the target untouched
set(target, src, offset) ==
  IF offset + Len(src) > Len(target) THEN target
  ELSE [j \in 1..Len(target) |->
          IF j > offset /\ j <= offset + Len(src) THEN src[j - offset] ELSE target[j]]

\* ------------------------------------- CircularDataBuffer (processor.ts)
\* The concatenation of a sequence of chunks
RECURSIVE Concat(_)
Concat(chunks) == IF chunks = <<>> THEN <<>> ELSE Head(chunks) \o Concat(Tail(chunks))

NewCircularDataBuffer(capacity, bufferSize) ==
  [buffers |-> <<>>, capacity |-> capacity, bufferSize |-> bufferSize]

\* Array.prototype.splice(0, deleteCount): deleteCount is clamped to the length
splice0(a, deleteCount) ==
  SubSeq(a, Min(Max(deleteCount, 0), Len(a)) + 1, Len(a))

\* Variant: on overflow the buffer keeps capacity / bufferSize chunks, rounded up
pushChunk_roundUp(b, data) ==
  IF Len(data) # b.bufferSize THEN b
  ELSE LET pushed == Append(b.buffers, data)
       IN IF b.capacity < Len(pushed) * b.bufferSize
          THEN [b EXCEPT !.buffers =
                  splice0(pushed, Len(pushed)
                                    - ((b.capacity + b.bufferSize - 1) \div b.bufferSize))]
          ELSE [b EXCEPT !.buffers = pushed]

\* CircularDataBuffer.push: a chunk of the wrong length throws and changes
\* nothing. The splice count buffers.length - capacity / bufferSize + 1 is a
\* fraction when bufferSize does not divide capacity; splice truncates it, and
\* it is positive here, so it is the integer quotient below.
pushChunk(b, data) ==
  IF Len(data) # b.bufferSize THEN b
  ELSE LET pushed == Append(b.buffers, data)
       IN IF b.capacity < Len(pushed) * b.bufferSize
          THEN [b EXCEPT !.buffers =
                  splice0(pushed, (Len(pushed) * b.bufferSize - b.capacity + b.bufferSize)
                                    \div b.bufferSize)]
          ELSE [b EXCEPT !.buffers = pushed]

\* CircularDataBuffer.shiftAll: a copy of every buffered sample, oldest first
shiftAll(b) == Concat(b.buffers)

\* CircularDataBuffer.size
size(b) == Len(b.buffers) * b.bufferSize

\* ------- depppCircularDataBuffer / deppCircularDataBuffer (processor.ts)
\* Both classes keep a FIFO of chunks (an array, or a queue-typescript Queue
\* whose enqueue appends and dequeue removes the head) and run the same code.
NewChunkList(maxSize) == [buffer |-> <<>>, maxSize |-> maxSize, currentSize |-> 0]

\* push's eviction loop: whole chunks leave from the front while currentSize
\* exceeds maxSize
RECURSIVE evictLoop(_)
evictLoop(b) ==
  IF b.currentSize > b.maxSize
  THEN evictLoop([b EXCEPT !.buffer = Tail(@),
                           !.currentSize = @ - Len(Head(b.buffer))])
  ELSE b

pushList(b, data) ==
  evictLoop([b EXCEPT !.buffer = Append(@, data), !.currentSize = @ + Len(data)])

\* shift's while loop: st = [b, data, dataIdx]. A chunk that fits is copied and
\* dataIdx advances; a chunk that does not fit has its head copied and its
\* tail pushed (enqueued) to the back of the list, and dataIdx stays.
RECURSIVE shiftLoop(_, _)
shiftLoop(st, n) ==
  IF Len(st.b.buffer) > 0 /\ st.dataIdx < n
  THEN LET currentData == Head(st.b.buffer)
           taken == [st.b EXCEPT !.buffer = Tail(@),
                                 !.currentSize = @ - Len(currentData)]
       IN IF st.dataIdx + Len(currentData) <= n
          THEN shiftLoop([b |-> taken,
                          data |-> set(st.data, currentData, st.dataIdx),
                          dataIdx |-> st.dataIdx + Len(currentData)], n)
          ELSE shiftLoop(
                 [b |-> [taken EXCEPT
                           !.buffer = Append(@, subarray(currentData, n - st.dataIdx,
                                                         Len(currentData))),
                           !.currentSize = @ + Len(currentData) - (n - st.dataIdx)],
                  data |-> set(st.data, subarray(currentData, 0, n - st.dataIdx),
                               st.dataIdx),
                  dataIdx |-> st.dataIdx], n)
  ELSE st

\* shift(size): the buffer afterwards and the samples returned
shiftList(b, n) ==
  LET st == shiftLoop([b |-> b, data |-> Zeros(n), dataIdx |-> 0], n)
  IN [b |-> st.b, data |-> st.data]

\* ---------------------------------------- depCircularDataBuffer (processor.ts)
\* constructor(capacity): a zero-filled Float32Array(capacity), head 0, no sample
NewFlatBuffer(capacity) ==
  [buffer |-> Zeros(capacity), maxSize |-> capacity, head |-> 0, currentSize |-> 0]

\* this.buffer[index] = value: a typed array stores nothing at an index outside
\* 0..length-1
StoreAt(buffer, index, value) ==
  IF index >= 0 /\ index < Len(buffer) THEN [buffer EXCEPT ![index + 1] = value] ELSE buffer

\* push(data), the loop from sample i (1-based) of data
RECURSIVE pushFlatLoop(_, _, _)
pushFlatLoop(b, data, i) ==
  IF i > Len(data) THEN b
  ELSE LET index == JsRem(b.head + b.currentSize, b.maxSize)
           stored == [b EXCEPT !.buffer = StoreAt(b.buffer, index, data[i])]
       IN pushFlatLoop(IF b.currentSize < b.maxSize
                         THEN [stored EXCEPT !.currentSize = @ + 1]
                         ELSE [stored EXCEPT !.head = (b.head + 1) % b.maxSize],
                       data, i + 1)

pushFlat(b, data) == pushFlatLoop(b, data, 1)

\* shift(size): the size samples from head on, wrapping, whatever currentSize is;
\* head advances by size and currentSize drops by size
shiftFlat(b, shiftSize) ==
  [output |-> [i \in 1..shiftSize |-> b.buffer[((b.head + i - 1) % b.maxSize) + 1]],
   threw |-> FALSE,
   b |-> [b EXCEPT !.head = (b.head + shiftSize) % b.maxSize, !.currentSize = @ - shiftSize]]

\* size()
sizeFlat(b) == b.currentSize

\* ------------------------------------ ChannelBufferProcessor (processor.ts)
NewChannelBufferProcessor(numberOfChannels, spectrogramBufferSize) ==
  [channelBuffers |-> [c \in 1..numberOfChannels |->
                         NewCircularDataBuffer(spectrogramBufferSize, ChunkSize)],
   numberOfChannels |-> numberOfChannels,
   spectrogramBufferSize |-> spectrogramBufferSize,
   isStart |-> TRUE,
   isStop |-> FALSE]

\* Variant: only the first channel is asked whether it holds a full window
processedBuffers_firstChannelOnly(pr, numberOfChannels) ==
  IF size(pr.channelBuffers[1]) < pr.spectrogramBufferSize
  THEN <<>>
  ELSE [c \in 1..numberOfChannels |-> shiftAll(pr.channelBuffers[c])]

\* processChannelBuffers: the buffers it would post, or <<>> when it returns at
\* the first channel that holds less than spectrogramBufferSize samples
processedBuffers(pr, numberOfChannels) ==
  IF \E c \in 1..numberOfChannels : size(pr.channelBuffers[c]) < pr.spectrogramBufferSize
  THEN <<>>
  ELSE [c \in 1..numberOfChannels |-> shiftAll(pr.channelBuffers[c])]

\* Variant: posting a message leaves isStart as it is
process_keepStart(pr, input) ==
  IF pr.isStop \/ Len(input) = 0 THEN pr
  ELSE LET numberOfChannels == Min(Len(input), pr.numberOfChannels)
       IN [pr EXCEPT !.channelBuffers =
             [c \in DOMAIN pr.channelBuffers |->
                IF c <= numberOfChannels
                THEN pushChunk(pr.channelBuffers[c], input[c])
                ELSE pr.channelBuffers[c]]]

\* process(inputs) for an input of the given channels (a sequence of chunks)
process(pr, input) ==
  IF pr.isStop \/ Len(input) = 0 THEN pr
  ELSE LET numberOfChannels == Min(Len(input), pr.numberOfChannels)
           pushed == [pr EXCEPT !.channelBuffers =
                        [c \in DOMAIN pr.channelBuffers |->
                           IF c <= numberOfChannels
                           THEN pushChunk(pr.channelBuffers[c], input[c])
                           ELSE pr.channelBuffers[c]]]
       IN IF processedBuffers(pushed, numberOfChannels) = <<>>
          THEN pushed
          ELSE [pushed EXCEPT !.isStart = FALSE]

\* The message process(inputs) posts, or <<>>
processPost(pr, input) ==
  IF pr.isStop \/ Len(input) = 0 THEN <<>>
  ELSE LET numberOfChannels == Min(Len(input), pr.numberOfChannels)
           pushed == [c \in DOMAIN pr.channelBuffers |->
                        IF c <= numberOfChannels
                        THEN pushChunk(pr.channelBuffers[c], input[c])
                        ELSE pr.channelBuffers[c]]
           buffers == processedBuffers([pr EXCEPT !.channelBuffers = pushed],
                                       numberOfChannels)
       IN IF buffers = <<>> THEN <<>>
          ELSE <<[processedBuffers |-> buffers, isStart |-> pr.isStart]>>

\* --------------------------------------------------- Circular2DDataBuffer
NewBuffer(numColumns, numRows, elementSize) ==
  [numColumns |-> numColumns, numRows |-> numRows, elementSize |-> elementSize,
   startIndex |-> 0, currentLength |-> 0,
   bufferData |-> Zeros(numColumns * numRows * elementSize)]

RECURSIVE enqueueLoop(_, _, _, _, _)
enqueueLoop(b, data, newData, i, numNewColumns) ==
  IF i >= numNewColumns THEN data
  ELSE LET targetIndex == mod(b.startIndex + b.currentLength + i, b.numColumns)
       IN enqueueLoop(b,
                      set(data,
                          subarray(newData, i * b.numRows, (i + 1) * b.numRows),
                          targetIndex * b.numRows),
                      newData, i + 1, numNewColumns)

\* Mutant: the incomplete trailing column is counted (ceil instead of floor)
numNewColumnsOf_ceil(b, newData) ==
  (Len(newData) + b.elementSize * b.numRows - 1) \div (b.elementSize * b.numRows)

numNewColumnsOf(b, newData) == Len(newData) \div (b.elementSize * b.numRows)

\* Mutant: an overflowing enqueue caps currentLength but forgets to advance startIndex
enqueue_noAdvance(b, newData) ==
  LET numNewColumns == numNewColumnsOf(b, newData)
      data == enqueueLoop(b, b.bufferData, newData, 0, numNewColumns)
      len == b.currentLength + numNewColumns
  IN [b EXCEPT !.bufferData = data, !.currentLength = Min(len, b.numColumns)]

enqueue(b, newData) ==
  LET numNewColumns == numNewColumnsOf(b, newData)
      data == enqueueLoop(b, b.bufferData, newData, 0, numNewColumns)
      len == b.currentLength + numNewColumns
  IN IF len > b.numColumns
     THEN [b EXCEPT !.bufferData = data,
                    !.startIndex = mod(b.startIndex + len - b.numColumns, b.numColumns),
                    !.currentLength = b.numColumns]
     ELSE [b EXCEPT !.bufferData = data, !.currentLength = len]

\* Mutant: the copy reads the old columns without following startIndex
RECURSIVE resizeLoop_noStart(_, _, _, _)
resizeLoop_noStart(b, newData, newNumColumns, i) ==
  IF i >= Min(b.currentLength, newNumColumns) THEN newData
  ELSE LET newIndex == Min(b.currentLength, newNumColumns) - i - 1
           oldIndex == mod(b.currentLength - i - 1, b.numColumns)
       IN resizeLoop_noStart(b,
                     set(newData,
                         subarray(b.bufferData, oldIndex * b.numRows, (oldIndex + 1) * b.numRows),
                         newIndex * b.numRows),
                     newNumColumns, i + 1)

RECURSIVE resizeLoop(_, _, _, _)
resizeLoop(b, newData, newNumColumns, i) ==
  IF i >= Min(b.currentLength, newNumColumns) THEN newData
  ELSE LET newIndex == Min(b.currentLength, newNumColumns) - i - 1
           oldIndex == mod(b.startIndex + b.currentLength - i - 1, b.numColumns)
       IN resizeLoop(b,
                     set(newData,
                         subarray(b.bufferData, oldIndex * b.numRows, (oldIndex + 1) * b.numRows),
                         newIndex * b.numRows),
                     newNumColumns, i + 1)

\* Mutant: the resize keeps the old startIndex
resizeWidth_keepStart(b, newNumColumns) ==
  IF newNumColumns = b.numColumns THEN b
  ELSE [b EXCEPT
          !.bufferData = resizeLoop(b, Zeros(newNumColumns * b.numRows * b.elementSize),
                                    newNumColumns, 0),
          !.numColumns = newNumColumns,
          !.currentLength = IF b.currentLength >= newNumColumns
                            THEN newNumColumns ELSE b.currentLength]

resizeWidth(b, newNumColumns) ==
  IF newNumColumns = b.numColumns THEN b
  ELSE [b EXCEPT
          !.bufferData = resizeLoop(b, Zeros(newNumColumns * b.numRows * b.elementSize),
                                    newNumColumns, 0),
          !.numColumns = newNumColumns,
          !.currentLength = IF b.currentLength >= newNumColumns
                            THEN newNumColumns ELSE b.currentLength,
          !.startIndex = 0]

\* Mutant: clear empties the buffer but keeps the old startIndex
clear_keepStart(b) ==
  [b EXCEPT !.bufferData = Zeros(b.numColumns * b.numRows * b.elementSize),
            !.currentLength = 0]

clear(b) ==
  [b EXCEPT !.bufferData = Zeros(b.numColumns * b.numRows * b.elementSize),
            !.startIndex = 0,
            !.currentLength = 0]

\* ------------------------------------------------- SpectrogramGPURenderer
\* createSpectrogramTexture(width, height): a zero-filled LUMINANCE/FLOAT texture
createSpectrogramTexture(width, height) ==
  [width |-> width, height |-> height, data |-> Zeros(width * height)]

\* The renderer as constructed: the spectrogram is stored transposed
\* (texture width = spectrogramHeight, texture height = spectrogramWidth)
NewRenderer(spectrogramWidth, spectrogramHeight) ==
  [texture |-> createSpectrogramTexture(spectrogramHeight, spectrogramWidth),
   lastSpectrogramStart |-> NULL,
   lastSpectrogramLength |-> 0,
   spectrogramOffset |-> <<0, 1>>,
   spectrogramLength |-> <<0, 1>>]

\* resizeCanvas that keeps the recorded buffer state
resizeCanvas_keepState(r) == r

\* resizeCanvas: forget the recorded buffer state (canvas geometry is not modelled)
resizeCanvas(r) == [r EXCEPT !.lastSpectrogramStart = NULL]

\* fastResizeCanvas: only canvas geometry and the zoom override, none of which
\* is modelled
fastResizeCanvas(r) == r

\* gl.texImage2D(TEXTURE_2D, 0, LUMINANCE, width, height, 0, LUMINANCE, FLOAT, data):
\* reallocates the texture; data shorter than width*height is INVALID_OPERATION
texImage2D(tex, width, height, data) ==
  IF Len(data) < width * height THEN tex
  ELSE [width |-> width, height |-> height, data |-> SubSeq(data, 1, width * height)]

\* gl.texSubImage2D(TEXTURE_2D, 0, 0, yoffset, width, height, LUMINANCE, FLOAT, data):
\* a rectangle outside the texture is INVALID_VALUE, short data INVALID_OPERATION
texSubImage2D(tex, yoffset, width, height, data) ==
  IF width > tex.width \/ yoffset + height > tex.height \/ Len(data) < width * height
  THEN tex
  ELSE [tex EXCEPT !.data =
          [j \in 1..Len(tex.data) |->
             LET y == (j - 1) \div tex.width
                 x == (j - 1) % tex.width
             IN IF y >= yoffset /\ y < yoffset + height /\ x < width
                THEN data[(y - yoffset) * width + x + 1]
                ELSE tex.data[j]]]

updateSpectrogramPartial(tex, width, height, dataStart, data) ==
  texSubImage2D(tex, dataStart, width, height,
                subarray(data, dataStart * width, (dataStart + height) * width))

\* Variant: an update that finds startIndex and currentLength unchanged uploads
\* every row again
updateSpectrogramCalls_rewriteUnchanged(r, q, forceFullRender) ==
  IF forceFullRender \/ r.lastSpectrogramStart = NULL
  THEN <<[call |-> "texImage2D", dataStart |-> 0, height |-> q.numColumns]>>
  ELSE IF q.startIndex # r.lastSpectrogramStart
  THEN IF q.startIndex >= r.lastSpectrogramStart
       THEN <<[call |-> "texSubImage2D", dataStart |-> r.lastSpectrogramStart,
               height |-> q.startIndex - r.lastSpectrogramStart]>>
       ELSE <<[call |-> "texSubImage2D", dataStart |-> 0, height |-> q.startIndex],
              [call |-> "texSubImage2D", dataStart |-> r.lastSpectrogramStart,
               height |-> q.numColumns - r.lastSpectrogramStart]>>
  ELSE IF q.currentLength > r.lastSpectrogramLength
  THEN <<[call |-> "texSubImage2D", dataStart |-> r.lastSpectrogramLength,
          height |-> q.currentLength - r.lastSpectrogramLength]>>
  ELSE <<[call |-> "texSubImage2D", dataStart |-> 0, height |-> q.numColumns]>>

\* Variant: when only currentLength grew, the rows from 0 are uploaded instead
\* of the rows from lastSpectrogramLength
updateSpectrogramCalls_fromZero(r, q, forceFullRender) ==
  IF forceFullRender \/ r.lastSpectrogramStart = NULL
  THEN <<[call |-> "texImage2D", dataStart |-> 0, height |-> q.numColumns]>>
  ELSE IF q.startIndex # r.lastSpectrogramStart
  THEN IF q.startIndex >= r.lastSpectrogramStart
       THEN <<[call |-> "texSubImage2D", dataStart |-> r.lastSpectrogramStart,
               height |-> q.startIndex - r.lastSpectrogramStart]>>
       ELSE <<[call |-> "texSubImage2D", dataStart |-> 0, height |-> q.startIndex],
              [call |-> "texSubImage2D", dataStart |-> r.lastSpectrogramStart,
               height |-> q.numColumns - r.lastSpectrogramStart]>>
  ELSE IF q.currentLength > r.lastSpectrogramLength
  THEN <<[call |-> "texSubImage2D", dataStart |-> 0, height |-> q.currentLength]>>
  ELSE <<>>

\* Variant: when startIndex wrapped past the end of the array, only the rows
\* from lastSpectrogramStart to the end are uploaded
updateSpectrogramCalls_noWrap(r, q, forceFullRender) ==
  IF forceFullRender \/ r.lastSpectrogramStart = NULL
  THEN <<[call |-> "texImage2D", dataStart |-> 0, height |-> q.numColumns]>>
  ELSE IF q.startIndex # r.lastSpectrogramStart
  THEN IF q.startIndex >= r.lastSpectrogramStart
       THEN <<[call |-> "texSubImage2D", dataStart |-> r.lastSpectrogramStart,
               height |-> q.startIndex - r.lastSpectrogramStart]>>
       ELSE <<[call |-> "texSubImage2D", dataStart |-> r.lastSpectrogramStart,
               height |-> q.numColumns - r.lastSpectrogramStart]>>
  ELSE IF q.currentLength > r.lastSpectrogramLength
  THEN <<[call |-> "texSubImage2D", dataStart |-> r.lastSpectrogramLength,
          height |-> q.currentLength - r.lastSpectrogramLength]>>
  ELSE <<>>

\* The texture writes one updateSpectrogram call issues, in program order
updateSpectrogramCalls(r, q, forceFullRender) ==
  IF forceFullRender \/ r.lastSpectrogramStart = NULL
  THEN <<[call |-> "texImage2D", dataStart |-> 0, height |-> q.numColumns]>>
  ELSE IF q.startIndex # r.lastSpectrogramStart
  THEN IF q.startIndex >= r.lastSpectrogramStart
       THEN <<[call |-> "texSubImage2D", dataStart |-> r.lastSpectrogramStart,
               height |-> q.startIndex - r.lastSpectrogramStart]>>
       ELSE <<[call |-> "texSubImage2D", dataStart |-> 0, height |-> q.startIndex],
              [call |-> "texSubImage2D", dataStart |-> r.lastSpectrogramStart,
               height |-> q.numColumns - r.lastSpectrogramStart]>>
  ELSE IF q.currentLength > r.lastSpectrogramLength
  THEN <<[call |-> "texSubImage2D", dataStart |-> r.lastSpectrogramLength,
          height |-> q.currentLength - r.lastSpectrogramLength]>>
  ELSE <<>>

RECURSIVE applyCalls(_, _, _, _)
applyCalls(tex, q, calls, i) ==
  IF i > Len(calls) THEN tex
  ELSE LET c == calls[i]
       IN applyCalls(IF c.call = "texImage2D"
                     THEN texImage2D(tex, q.numRows, q.numColumns, q.bufferData)
                     ELSE updateSpectrogramPartial(tex, q.numRows, c.height,
                                                   c.dataStart, q.bufferData),
                     q, calls, i + 1)

updateSpectrogram(r, q, forceFullRender) ==
  [r EXCEPT
     !.texture = applyCalls(r.texture, q, updateSpectrogramCalls(r, q, forceFullRender), 1),
     !.lastSpectrogramLength = q.currentLength,
     !.lastSpectrogramStart = q.startIndex,
     \* startIndex / numColumns and -0.5/numColumns + currentLength/numColumns,
     \* kept as exact fractions <<numerator, denominator>>
     !.spectrogramOffset = <<q.startIndex, q.numColumns>>,
     !.spectrogramLength = <<2 * q.currentLength - 1, 2 * q.numColumns>>]

\* ------------------------------ SpectrogramGPURenderer render parameters
\* An optional value (T | undefined | null) is <<>> when undefined or null and
\* <<v>> otherwise; a Partial<RenderParameters> is a function from the supplied
\* field names to optional values.
ParameterNames ==
  {"contrast", "sensitivity", "zoom", "minFrequencyHz", "maxFrequencyHz",
   "sampleRate", "windowSize", "scale", "gradient"}

\* (contrast, sensitivity and zoom, the smoothed values, are fixed-point numbers)
DEFAULT_RENDER_PARAMETERS ==
  [contrast |-> 25 * FixedPoint, sensitivity |-> 25 * FixedPoint, zoom |-> 4 * FixedPoint,
   minFrequencyHz |-> 10,
   maxFrequencyHz |-> 12000, sampleRate |-> 48000, windowSize |-> 4096,
   scale |-> "mel", gradient |-> "HEATED_METAL_GRADIENT"]

\* parameters.field and this.parameters?.field
Field(partial, name) == IF name \in DOMAIN partial THEN partial[name] ELSE <<>>
OldField(parameters, name) == IF parameters = <<>> THEN <<>> ELSE <<parameters[1][name]>>

\* merge that falls back to the default whenever no new value is supplied
merge_ignoreOld(newValue, oldValue, defaultValue) ==
  IF newValue # <<>> THEN newValue[1] ELSE defaultValue

merge(newValue, oldValue, defaultValue) ==
  IF newValue # <<>> THEN newValue[1]
  ELSE IF oldValue # <<>> THEN oldValue[1]
  ELSE defaultValue

\* Math.abs, and division as JavaScript numbers rounded to the model's
\* resolution (towards zero)
Abs(x) == IF x < 0 THEN 0 - x ELSE x
Quotient(x, y) == IF (x < 0) = (y < 0) THEN Abs(x) \div Abs(y) ELSE 0 - (Abs(x) \div Abs(y))

\* lerp(a, b, 0.5) = a + 0.5 * (b - a)
lerpHalf(a, b) == a + Quotient(b - a, 2)

stepTowards(x, y) == IF Abs(x - y) < StepEpsilon THEN y ELSE lerpHalf(x, y)

\* nyquistFrequency, in Hz
nyquistFrequency(sampleRate, windowSize) ==
  Quotient((windowSize - 2) * sampleRate, 2 * windowSize)

\* hzToMel(hz) = 2595 * log10(1 + hz / 700). Every use is a ratio of two mel
\* values, in which the factor 2595 and the base of the logarithm cancel: the
\* model takes the base-2 logarithm of 1 + hz / 700, rounded down.
RECURSIVE Log2(_)
Log2(n) == IF n < 2 THEN 0 ELSE 1 + Log2(n \div 2)

hzToMel(hz) == Log2(1 + Quotient(hz, 700))

\* updateScaleRange: the new scaleRange in fixed point, or "throws"
updateScaleRange(scale, minFrequencyHz, maxFrequencyHz, sampleRate, windowSize) ==
  LET peakHz == nyquistFrequency(sampleRate, windowSize)
  IN CASE scale = "linear" ->
            <<Quotient(minFrequencyHz * FixedPoint, peakHz),
              Quotient(maxFrequencyHz * FixedPoint, peakHz)>>
       [] scale = "mel" ->
            <<Quotient(hzToMel(minFrequencyHz) * FixedPoint, hzToMel(peakHz)),
              Quotient(hzToMel(maxFrequencyHz) * FixedPoint, hzToMel(peakHz))>>
       [] OTHER -> "throws"

\* updateScaleTexture / updateGradientTexture: the uploaded lookup table is a
\* function of the arguments, kept as the arguments themselves
updateScaleTexture(spectrogramHeight, scale, sampleRate, windowSize) ==
  <<[height |-> spectrogramHeight, scale |-> scale, sampleRate |-> sampleRate,
     windowSize |-> windowSize]>>

updateGradientTexture(gradient) == <<[ramp |-> gradient]>>

\* The parameter fields as the field initialisers leave them
FreshParameterState(spectrogramHeight) ==
  [spectrogramHeight |-> spectrogramHeight,
   parameters |-> <<>>,
   scaleRange |-> <<0, 0>>,
   currentScaleRange |-> <<0, 0>>,
   currentContrast |-> 25 * FixedPoint,
   currentSensitivity |-> 25 * FixedPoint,
   currentZoom |-> 4 * FixedPoint,
   scaleTexture |-> <<>>,
   gradientTexture |-> <<>>]

\* The merged parameters of updateParameters
newParametersOf(r, partial) ==
  [name \in ParameterNames |->
     merge(Field(partial, name), OldField(r.parameters, name),
           DEFAULT_RENDER_PARAMETERS[name])]

\* updateParameters in which every call regenerates both lookup textures
updateParameters_alwaysRegenerate(r, partial) ==
  LET new == newParametersOf(r, partial)
      range == updateScaleRange(new.scale, new.minFrequencyHz, new.maxFrequencyHz,
                                new.sampleRate, new.windowSize)
  IN IF range = "throws"
     THEN [r |-> [r EXCEPT !.gradientTexture = updateGradientTexture(new.gradient)],
           writes |-> {"gradient"}, threw |-> TRUE]
     ELSE [r |-> [r EXCEPT !.gradientTexture = updateGradientTexture(new.gradient),
                           !.scaleRange = range,
                           !.scaleTexture = updateScaleTexture(r.spectrogramHeight, new.scale,
                                                               new.sampleRate, new.windowSize),
                           !.currentScaleRange = range,
                           !.parameters = <<new>>],
           writes |-> {"gradient", "scale"}, threw |-> FALSE]

\* updateParameters in which every new scale range is applied at once, whether
\* or not the scale texture is regenerated
updateParameters_snapOnRange(r, partial) ==
  LET new == newParametersOf(r, partial)
      old == IF r.parameters = <<>> THEN new ELSE r.parameters[1]
      first == r.parameters = <<>>
      gradientChanged == first \/ old.gradient # new.gradient
      rangeChanged == \/ first
                      \/ old.scale # new.scale
                      \/ old.minFrequencyHz # new.minFrequencyHz
                      \/ old.maxFrequencyHz # new.maxFrequencyHz
                      \/ old.sampleRate # new.sampleRate
                      \/ old.windowSize # new.windowSize
      textureChanged == \/ first
                        \/ old.scale # new.scale
                        \/ old.sampleRate # new.sampleRate
                        \/ old.windowSize # new.windowSize
      r1 == IF gradientChanged
            THEN [r EXCEPT !.gradientTexture = updateGradientTexture(new.gradient)]
            ELSE r
      range == IF rangeChanged
               THEN updateScaleRange(new.scale, new.minFrequencyHz, new.maxFrequencyHz,
                                     new.sampleRate, new.windowSize)
               ELSE r.scaleRange
      r2 == [r1 EXCEPT !.scaleRange = range]
      r3 == IF textureChanged
            THEN [r2 EXCEPT !.scaleTexture = updateScaleTexture(r.spectrogramHeight, new.scale,
                                                                new.sampleRate, new.windowSize),
                            !.currentScaleRange = range]
            ELSE IF rangeChanged THEN [r2 EXCEPT !.currentScaleRange = range] ELSE r2
  IN IF range = "throws"
     THEN [r |-> r1, writes |-> IF gradientChanged THEN {"gradient"} ELSE {},
           threw |-> TRUE]
     ELSE [r |-> [r3 EXCEPT !.parameters = <<new>>],
           writes |-> (IF gradientChanged THEN {"gradient"} ELSE {})
                        \cup (IF textureChanged THEN {"scale"} ELSE {}),
           threw |-> FALSE]

\* updateParameters(partial): the renderer afterwards, the lookup textures
\* written, and whether updateScaleRange threw (the statements after it are
\* then not executed)
updateParameters(r, partial) ==
  LET new == newParametersOf(r, partial)
      old == IF r.parameters = <<>> THEN new ELSE r.parameters[1]
      first == r.parameters = <<>>
      gradientChanged == first \/ old.gradient # new.gradient
      rangeChanged == \/ first
                      \/ old.scale # new.scale
                      \/ old.minFrequencyHz # new.minFrequencyHz
                      \/ old.maxFrequencyHz # new.maxFrequencyHz
                      \/ old.sampleRate # new.sampleRate
                      \/ old.windowSize # new.windowSize
      textureChanged == \/ first
                        \/ old.scale # new.scale
                        \/ old.sampleRate # new.sampleRate
                        \/ old.windowSize # new.windowSize
      r1 == IF gradientChanged
            THEN [r EXCEPT !.gradientTexture = updateGradientTexture(new.gradient)]
            ELSE r
      range == IF rangeChanged
               THEN updateScaleRange(new.scale, new.minFrequencyHz, new.maxFrequencyHz,
                                     new.sampleRate, new.windowSize)
               ELSE r.scaleRange
      r2 == [r1 EXCEPT !.scaleRange = range]
      r3 == IF textureChanged
            THEN [r2 EXCEPT !.scaleTexture = updateScaleTexture(r.spectrogramHeight, new.scale,
                                                                new.sampleRate, new.windowSize),
                            !.currentScaleRange = range]
            ELSE r2
  IN IF range = "throws"
     THEN [r |-> r1, writes |-> IF gradientChanged THEN {"gradient"} ELSE {},
           threw |-> TRUE]
     ELSE [r |-> [r3 EXCEPT !.parameters = <<new>>],
           writes |-> (IF gradientChanged THEN {"gradient"} ELSE {})
                        \cup (IF textureChanged THEN {"scale"} ELSE {}),
           threw |-> FALSE]

\* The constructor ends with updateParameters({})
NewParameterState(spectrogramHeight) ==
  updateParameters(FreshParameterState(spectrogramHeight), <<>>).r

\* 0.05, the contrast below which render() applies 0
ContrastFloor == (5 * FixedPoint) \div 100

\* render(): the smoothing of the applied values (drawing is not modelled)
render(r) ==
  LET contrast == stepTowards(r.currentContrast, r.parameters[1].contrast)
  IN [r EXCEPT
        !.currentScaleRange = <<stepTowards(r.currentScaleRange[1], r.scaleRange[1]),
                                stepTowards(r.currentScaleRange[2], r.scaleRange[2])>>,
        !.currentContrast = IF contrast < ContrastFloor THEN 0 ELSE contrast,
        !.currentSensitivity = stepTowards(r.currentSensitivity,
                                           r.parameters[1].sensitivity),
        !.currentZoom = stepTowards(r.currentZoom, r.parameters[1].zoom)]

\* ---------------------------------------------------------------- inputs
\* Column number t of the input stream holds t, t+1, ... (as test/buffer.test.ts
\* fills its columns: value i + j in row j of column i)
ColumnData(t, width) == [j \in 1..width |-> t + j - 1]

RECURSIVE Columns(_, _, _)
Columns(t, k, width) ==
  IF k = 0 THEN <<>> ELSE <<ColumnData(t, width)>> \o Columns(t + 1, k - 1, width)

RECURSIVE Flatten(_)
Flatten(cols) == IF cols = <<>> THEN <<>> ELSE Head(cols) \o Flatten(Tail(cols))

\* k whole columns followed by x elements of an incomplete one
NewData(t, k, x, width) == Flatten(Columns(t, k, width)) \o [j \in 1..x |-> 9]

\* ---------------------------------------------------- observation helpers
\* Physical column p of a buffer: numRows * elementSize storage elements
Column(b, p) ==
  SubSeq(b.bufferData, p * b.numRows * b.elementSize + 1,
         (p + 1) * b.numRows * b.elementSize)

\* The live logical columns, oldest first
LiveColumns(b) ==
  [i \in 1..b.currentLength |-> Column(b, (b.startIndex + i - 1) % b.numColumns)]

\* The last n elements of a sequence
LastN(s, n) == SubSeq(s, Len(s) - n + 1, Len(s))

\* Row p of the spectrogram texture
TextureRow(tex, p) == SubSeq(tex.data, p * tex.width + 1, (p + 1) * tex.width)

\* sinceUpd before the first updateSpectrogram
NoUpdateYet ==
  [updated |-> FALSE, onlyEnqueue |-> FALSE, canvasResized |-> FALSE,
   columns |-> {}, count |-> 0, startIndex |-> 0, currentLength |-> 0]

\* The texture rows a sequence of write calls covers, and how many rows they carry
RECURSIVE RowsWritten(_)
RowsWritten(calls) ==
  IF calls = <<>> THEN {}
  ELSE LET c == Head(calls)
       IN (c.dataStart..(c.dataStart + c.height - 1)) \cup RowsWritten(Tail(calls))

RECURSIVE RowCount(_)
RowCount(calls) ==
  IF calls = <<>> THEN 0 ELSE Head(calls).height + RowCount(Tail(calls))

IsFullUpload(calls) == \E i \in 1..Len(calls) : calls[i].call = "texImage2D"

\* The columns enqueued since the buffer was last empty
SinceEmpty == SubSeq(log, epoch + 1, Len(log))

\* Column i (0-based) of the data handed to enqueue
InputColumn(b, newData, i) ==
  SubSeq(newData, i * b.numRows * b.elementSize + 1, (i + 1) * b.numRows * b.elementSize)

\* ---------------------------------------------------------------- actions
Widths == 1..MaxCols

\* The three buffer operations; each records itself in lastOp
EnqueueOp(k, x) ==
  /\ Len(log) + k <= MaxLog
  /\ x < buf.numRows * buf.elementSize
  /\ LET width == buf.numRows * buf.elementSize
         newData == NewData(Len(log), k, x, width)
     IN /\ buf' = enqueue(buf, newData)
        /\ log' = log \o Columns(Len(log), k, width)
        /\ lastOp' = [op |-> "enqueue", arg |-> newData]

ResizeWidthOp(w) ==
  /\ buf' = resizeWidth(buf, w)
  /\ lastOp' = [op |-> "resizeWidth", arg |-> w]
  /\ UNCHANGED log

ClearOp ==
  /\ buf' = clear(buf)
  /\ lastOp' = [op |-> "clear", arg |-> 0]
  /\ UNCHANGED log

\* --- the buffer on its own
Enqueue(k, x) ==
  /\ EnqueueOp(k, x)
  /\ UNCHANGED <<pipeVars, sessionVars, uiVars, restVars>>
  /\ pre' = [buf |-> buf, op |-> lastOp.op]
  /\ UNCHANGED <<epoch, enqOnly, rend, sinceUpd, lastWrites>>

ResizeWidth(w) ==
  /\ ResizeWidthOp(w)
  /\ UNCHANGED <<pipeVars, sessionVars, uiVars, restVars>>
  /\ pre' = [buf |-> buf, op |-> lastOp.op]
  /\ enqOnly' = FALSE
  /\ UNCHANGED <<epoch, rend, sinceUpd, lastWrites>>

Clear ==
  /\ ClearOp
  /\ UNCHANGED <<pipeVars, sessionVars, uiVars, restVars>>
  /\ pre' = [buf |-> buf, op |-> lastOp.op]
  /\ enqOnly' = TRUE
  /\ epoch' = Len(log)
  /\ UNCHANGED <<rend, sinceUpd, lastWrites>>

\* The worklet path before any session: no message, every worker idle
PoolIdle(poolSize) ==
  /\ portQueue = <<>>
  /\ posted = 0
  /\ WORKER_POOL = [w \in 1..poolSize |-> [busy |-> FALSE]]
  /\ WORKER_QUEUE = <<>>
  /\ onmessage = [w \in 1..poolSize |-> <<>>]
  /\ inbox = [w \in 1..poolSize |-> <<>>]
  /\ outbox = [w \in 1..poolSize |-> <<>>]
  /\ visualizers = [c \in 1..NumberOfChannels |->
                      [spectrogramBuffer |-> NewBuffer(PipeColumns, 1, 1),
                       imageDirty |-> FALSE]]
  /\ enqueuedBlocks = [c \in 1..NumberOfChannels |-> <<>>]
  /\ rejected = [c \in 1..NumberOfChannels |-> {}]
  /\ uploaded = [c \in 1..NumberOfChannels |-> 0]

\* A ChannelBufferProcessor as its constructor leaves it
NewProcessor == [isStart |-> TRUE, isStop |-> FALSE]

\* The controls before any setup was started
UiIdle ==
  /\ playState = "stopped"
  /\ setupStep = "idle"
  /\ attempts = 0
  /\ mediaStreams = {}
  /\ sessionStream = <<>>

\* A processor for numberOfChannels channels as its constructor leaves it, and
\* nothing delivered to it yet
ProcessorIdle(numberOfChannels, spectrogramBufferSize) ==
  /\ proc = NewChannelBufferProcessor(numberOfChannels, spectrogramBufferSize)
  /\ tick = 1
  /\ lastPost = <<>>
  /\ lastActive = 0
  /\ recent = [c \in 1..numberOfChannels |-> <<>>]
  /\ unposted = [c \in 1..numberOfChannels |-> 0]
  /\ lostChunk = {}
  /\ total = [c \in 1..numberOfChannels |-> 0]

\* A chunk-list buffer as its constructor leaves it
RingIdle(maxSize) ==
  /\ ring = NewChunkList(maxSize)
  /\ ringOp = [op |-> "new"]
  /\ nextSample = 1

\* No call of generateSpectrogram under study
GenIdle == call = [made |-> FALSE]

\* A renderer of one row as its constructor leaves it, no call made on it
ParamIdle(spectrogramHeight) ==
  /\ gpu = NewParameterState(spectrogramHeight)
  /\ gpuOp = [op |-> "new", updates |-> 0, frames |-> 0]

\* No request under study
WorkerIdle == wk = [stage |-> "idle"]

\* A flat-array buffer as its constructor leaves it
FlatIdle(capacity) ==
  /\ flat = NewFlatBuffer(capacity)
  /\ flatOp = [op |-> "new", shifts |-> 0]
  /\ flatNext = 1

RestIdle ==
  /\ ProcessorIdle(1, ChunkSize) /\ RingIdle(1) /\ GenIdle /\ ParamIdle(1) /\ WorkerIdle
  /\ FlatIdle(1)

\* One session set up and running on an idle pool
PipeIdle(poolSize) ==
  /\ PoolIdle(poolSize)
  /\ UiIdle
  /\ RestIdle
  /\ worklet = <<NewProcessor>>
  /\ stopCallback = 1
  /\ stopPort = {}
  /\ enqueuedAfterStop = {}

Init ==
  /\ PipeIdle(1)
  /\ \E c \in 1..MaxCols, r \in 1..MaxRows, e \in 1..MaxElementSize :
       buf = NewBuffer(c, r, e)
  /\ rend = NewRenderer(1, 1)
  /\ log = <<>>
  /\ lastOp = [op |-> "new", arg |-> 0]
  /\ pre = [buf |-> buf, op |-> "none"]
  /\ epoch = 0
  /\ enqOnly = TRUE
  /\ sinceUpd = NoUpdateYet
  /\ lastWrites = <<>>

Next ==
  \/ \E k \in 0..MaxBatch, x \in 0..MaxExtra : Enqueue(k, x)
  \/ \E w \in Widths : ResizeWidth(w)
  \/ Clear

Spec == Init /\ [][Next]_vars

\* --- the buffer together with the renderer that uploads it
Tracking == sinceUpd.updated /\ sinceUpd.onlyEnqueue

RenderEnqueue(k) ==
  /\ EnqueueOp(k, 0)
  /\ UNCHANGED <<pipeVars, sessionVars, uiVars, restVars>>
  /\ sinceUpd' =
       IF Tracking
       THEN [sinceUpd EXCEPT
               !.columns = @ \cup {(buf.startIndex + buf.currentLength + i) % buf.numColumns :
                                     i \in 0..(k - 1)},
               !.count = @ + k]
       ELSE sinceUpd
  /\ UNCHANGED <<rend, lastWrites, pre, epoch, enqOnly>>

\* What an updateSpectrogram(q, forceFullRender) call on renderer r leaves behind
UpdateFrom(r, q, forceFullRender, since) ==
  /\ rend' = updateSpectrogram(r, q, forceFullRender)
  /\ lastWrites' = updateSpectrogramCalls(r, q, forceFullRender)
  /\ sinceUpd' = [updated |-> TRUE, onlyEnqueue |-> TRUE, canvasResized |-> FALSE,
                  columns |-> {}, count |-> 0,
                  startIndex |-> q.startIndex, currentLength |-> q.currentLength]
  /\ lastOp' = [op |-> "updateSpectrogram", arg |-> forceFullRender, since |-> since]

UpdateSpectrogram(forceFullRender) ==
  /\ UpdateFrom(rend, buf, forceFullRender, sinceUpd)
  /\ UNCHANGED <<pipeVars, sessionVars, uiVars, restVars>>
  /\ UNCHANGED <<buf, log, pre, epoch, enqOnly>>

ResizeCanvas ==
  /\ rend' = resizeCanvas(rend)
  /\ UNCHANGED <<pipeVars, sessionVars, uiVars, restVars>>
  /\ sinceUpd' = [sinceUpd EXCEPT !.canvasResized = TRUE]
  /\ lastOp' = [op |-> "resizeCanvas", arg |-> 0]
  /\ UNCHANGED <<buf, log, pre, epoch, enqOnly, lastWrites>>

\* SpectrogramVisualizer.fastResize(): fastResizeCanvas
FastResizeCanvas ==
  /\ rend' = fastResizeCanvas(rend)
  /\ lastOp' = [op |-> "fastResizeCanvas", arg |-> 0]
  /\ UNCHANGED <<pipeVars, sessionVars, uiVars, restVars>>
  /\ UNCHANGED <<buf, log, pre, epoch, enqOnly, lastWrites, sinceUpd>>

\* SpectrogramVisualizer.resize(): resizeWidth, resizeCanvas, updateSpectrogram
VisualizerResize(w) ==
  /\ buf' = resizeWidth(buf, w)
  /\ UNCHANGED <<pipeVars, sessionVars, uiVars, restVars>>
  /\ UpdateFrom(resizeCanvas(rend), resizeWidth(buf, w), FALSE,
                [sinceUpd EXCEPT !.onlyEnqueue = FALSE, !.columns = {}, !.count = 0,
                                 !.canvasResized = TRUE])
  /\ UNCHANGED <<log, pre, epoch, enqOnly>>

\* SpectrogramVisualizer.clearSpectrogram(): clear, updateSpectrogram(buffer, true)
VisualizerClear ==
  /\ buf' = clear(buf)
  /\ UNCHANGED <<pipeVars, sessionVars, uiVars, restVars>>
  /\ UpdateFrom(rend, clear(buf), TRUE,
                [sinceUpd EXCEPT !.onlyEnqueue = FALSE, !.columns = {}, !.count = 0])
  /\ UNCHANGED <<log, pre, epoch, enqOnly>>

\* Constructed as SpectrogramVisualizer constructs them: elementSize 1, a texture
\* of numColumns rows of numRows texels, and a first resizeCanvas
InitRender ==
  /\ PipeIdle(1)
  /\ \E c \in 1..MaxCols, r \in 1..MaxRows :
       /\ buf = NewBuffer(c, r, 1)
       /\ rend = resizeCanvas(NewRenderer(c, r))
  /\ log = <<>>
  /\ lastOp = [op |-> "new", arg |-> 0]
  /\ pre = [buf |-> buf, op |-> "none"]
  /\ epoch = 0
  /\ enqOnly = TRUE
  /\ sinceUpd = NoUpdateYet
  /\ lastWrites = <<>>

NextRender ==
  \/ \E k \in 0..MaxBatch : RenderEnqueue(k)
  \/ \E f \in BOOLEAN : UpdateSpectrogram(f)
  \/ ResizeCanvas
  \/ FastResizeCanvas
  \/ \E w \in Widths : VisualizerResize(w)
  \/ VisualizerClear

SpecRender == InitRender /\ [][NextRender]_vars

\* ------------------------------------------------ worker pool (worker-util.ts)
\* Pool operations work on st = [pool, queue, granted]: granted lists the
\* promises getFreeWorker/releaseWorker resolved, whose then-callbacks (queueTask)
\* run as microtasks before the current event handler's turn ends.
FirstFree(pool) ==
  LET free == {w \in 1..Len(pool) : ~pool[w].busy}
  IN IF free = {} THEN 0 ELSE CHOOSE w \in free : \A v \in free : w <= v

getFreeWorker(st, task) ==
  LET w == FirstFree(st.pool)
  IN IF w # 0
     THEN [st EXCEPT !.pool[w].busy = TRUE,
                     !.granted = Append(@, [worker |-> w, task |-> task])]
     ELSE [st EXCEPT !.queue = Append(@, task)]

\* Mutant: a released worker is passed to the task that has waited the shortest
releaseWorker_newestFirst(st, w) ==
  IF Len(st.queue) > 0
  THEN [st EXCEPT !.pool[w].busy = TRUE,
                  !.queue = SubSeq(@, 1, Len(@) - 1),
                  !.granted = Append(@, [worker |-> w, task |-> st.queue[Len(st.queue)]])]
  ELSE [st EXCEPT !.pool[w].busy = FALSE]

\* Mutant: a released worker is passed to the waiting task without being marked busy
releaseWorker_notBusy(st, w) ==
  IF Len(st.queue) > 0
  THEN [st EXCEPT !.pool[w].busy = FALSE,
                  !.queue = Tail(@),
                  !.granted = Append(@, [worker |-> w, task |-> Head(st.queue)])]
  ELSE [st EXCEPT !.pool[w].busy = FALSE]

releaseWorker(st, w) ==
  IF Len(st.queue) > 0
  THEN [st EXCEPT !.pool[w].busy = TRUE,
                  !.queue = Tail(@),
                  !.granted = Append(@, [worker |-> w, task |-> Head(st.queue)])]
  ELSE [st EXCEPT !.pool[w].busy = FALSE]

\* port.onmessage: one updateSpectrogramBuffer -> queueTask -> getFreeWorker per
\* channel, in channel order
RECURSIVE dispatchChannels(_, _, _)
dispatchChannels(st, msg, c) ==
  IF c > NumberOfChannels THEN st
  ELSE dispatchChannels(
         getFreeWorker(st, [channel |-> c, session |-> msg.session, block |-> msg.block,
                            isStart |-> msg.isStart]),
         msg, c + 1)

\* queueTask's then-callback for every granted worker: install the response
\* handler and post the request
Installed(handlers, granted) ==
  [w \in DOMAIN handlers |->
     IF \E i \in 1..Len(granted) : granted[i].worker = w
     THEN <<(CHOOSE g \in {granted[i] : i \in 1..Len(granted)} : g.worker = w).task>>
     ELSE handlers[w]]

\* ----------------------------------------------- helper worker (worker.ts)
\* getNumWindows with Math.floor in place of Math.ceil
getNumWindows_floor(samplesLength, windowSize, windowStepSize) ==
  Max(0, (samplesLength - windowSize + windowStepSize) \div windowStepSize)

\* getNumWindows: max(0, ceil((samplesLength - windowSize) / windowStepSize + 1))
getNumWindows(samplesLength, windowSize, windowStepSize) ==
  Max(0, 0 - ((0 - (samplesLength - windowSize + windowStepSize)) \div windowStepSize))

\* generateSpectrogram's window count with the edge padding
numWindowsOf(samplesLength, windowSize, windowStepSize, isStart, isEnd) ==
  LET additionalWindows == windowSize \div windowStepSize
  IN getNumWindows(samplesLength, windowSize, windowStepSize)
       + (IF isStart THEN additionalWindows ELSE 0)
       + (IF isEnd THEN additionalWindows ELSE 0)

\* type Scale = "linear" | "mel"
Scale == {"linear", "mel"}

\* scaleSize may be a half-integer (windowSize / 2 when undefined), so sizes and
\* offsets of the result array are carried doubled: twiceScaleSize, windowIdx2.

\* generateSpectrogramForSingleFrame writing everything to index 0 .. scaleSize - 1
frameIndices_fromZero(windowIdx2, twiceScaleSize, length) ==
  {j \in 0..twiceScaleSize : 2 * j < twiceScaleSize} \cap (0..(length - 1))

\* generateSpectrogramForSingleFrame: the indices of resultBuffer it assigns,
\* resultBufferIndex + j for j < scaleSize. An assignment to a Float32Array at
\* a non-integer or out-of-range index stores nothing.
frameIndices(windowIdx2, twiceScaleSize, length) ==
  IF windowIdx2 % 2 = 0
  THEN {windowIdx2 \div 2 + j : j \in {k \in 0..twiceScaleSize : 2 * k < twiceScaleSize}}
         \cap (0..(length - 1))
  ELSE {}

\* generateSpectrogram's loop over the windows: windowIdx advances by scaleSize
\* while windowIdx < numWindows * scaleSize; one set of assigned indices per frame
RECURSIVE frameLoop(_, _, _, _)
frameLoop(windowIdx2, twiceScaleSize, numWindows, length) ==
  IF windowIdx2 < numWindows * twiceScaleSize
  THEN <<frameIndices(windowIdx2, twiceScaleSize, length)>>
         \o frameLoop(windowIdx2 + twiceScaleSize, twiceScaleSize, numWindows, length)
  ELSE <<>>

\* The window filled from the sample index 0 on, whatever samplesStart is
windowSamples_fromZero(samplesStart, samplesLength, i, windowSize) ==
  [j \in 1..windowSize |->
     LET sampleIdx == i + j - 1
     IN IF sampleIdx < 0 \/ sampleIdx >= samplesLength THEN NULL ELSE sampleIdx]

\* generateSpectrogram's inner loop: windowSamples[j] for the window starting
\* at sample index i, given as the index of the sample it copies, or NULL for
\* the zero stored when the index is outside the range
windowSamples(samplesStart, samplesLength, i, windowSize) ==
  [j \in 1..windowSize |->
     LET sampleIdx == i + j - 1
     IN IF sampleIdx < samplesStart \/ sampleIdx >= samplesStart + samplesLength
        THEN NULL ELSE sampleIdx]

\* generateSpectrogram's loop over the windows, seen from its input: i starts at
\* startIdx and advances by windowStepSize with every frame
RECURSIVE windowLoop(_, _, _, _, _, _, _, _)
windowLoop(i, windowIdx2, twiceScaleSize, numWindows, samplesStart, samplesLength, windowSize, windowStepSize) ==
  IF windowIdx2 < numWindows * twiceScaleSize
  THEN <<windowSamples(samplesStart, samplesLength, i, windowSize)>>
         \o windowLoop(i + windowStepSize, windowIdx2 + twiceScaleSize, twiceScaleSize,
                       numWindows, samplesStart, samplesLength, windowSize, windowStepSize)
  ELSE <<>>

\* generateSpectrogram: the window count, the length of the Float32Array
\* allocated for scaleSize * numWindows magnitudes (the product truncated to an
\* integer) and the indices each frame assigns. An undefined scaleSize (NULL)
\* is windowSize / 2. The first magnitude of the first frame reaches the
\* switch on scale, whose default throws.
generateSpectrogram(samplesStart, samplesLength, windowSize, windowStepSize, isStart, isEnd, scaleSize, scale) ==
  LET numWindows == numWindowsOf(samplesLength, windowSize, windowStepSize, isStart, isEnd)
      twiceScaleSize == IF scaleSize = NULL THEN windowSize ELSE 2 * scaleSize
      length == (twiceScaleSize * numWindows) \div 2
      startIdx == IF isStart
                  THEN samplesStart - (windowSize \div windowStepSize) * windowStepSize
                  ELSE samplesStart
  IN IF 0 < numWindows * twiceScaleSize /\ 0 < twiceScaleSize /\ scale \notin Scale
     THEN [error |-> TRUE]
     ELSE [error |-> FALSE,
           windowCount |-> numWindows,
           options |-> [isStart |-> isStart, isEnd |-> isEnd, windowSize |-> windowSize,
                        windowStepSize |-> windowStepSize, scale |-> scale,
                        twiceScaleSize |-> twiceScaleSize],
           spectrogramDataLength |-> length,
           writes |-> frameLoop(0, twiceScaleSize, numWindows, length),
           windows |-> windowLoop(startIdx, 0, twiceScaleSize, numWindows, samplesStart,
                                  samplesLength, windowSize, windowStepSize)]

\* worker-constants.ts
ACTION_COMPUTE_SPECTROGRAM == "spectrogram-compute"

\* A message is a record whose fields are the keys present in the object.
\* The helper worker's onmessage that posts nothing for an unknown action
workerOnMessage_silentDefault(data) ==
  IF data.action = ACTION_COMPUTE_SPECTROGRAM
  THEN LET o == data.payload.options
           r == generateSpectrogram(data.payload.samplesStart, data.payload.samplesLength, o.windowSize,
                                    o.windowStepSize, o.isStart, o.isEnd, o.scaleSize,
                                    o.scale)
       IN IF r.error
          THEN <<[error |-> "Unknown scale"]>>
          ELSE <<[payload |-> [spectrogramWindowCount |-> r.windowCount,
                               spectrogramOptions |-> r.options,
                               spectrogramBuffer |-> r.spectrogramDataLength,
                               inputBuffer |-> data.payload.samplesBuffer]]>>
  ELSE <<>>

\* The helper worker's onmessage: the messages it posts for one request. The
\* compute case posts the payload, or the error caught from generateSpectrogram;
\* any other action posts an error.
workerOnMessage(data) ==
  IF data.action = ACTION_COMPUTE_SPECTROGRAM
  THEN LET o == data.payload.options
           r == generateSpectrogram(data.payload.samplesStart, data.payload.samplesLength, o.windowSize,
                                    o.windowStepSize, o.isStart, o.isEnd, o.scaleSize,
                                    o.scale)
       IN IF r.error
          THEN <<[error |-> "Unknown scale"]>>
          ELSE <<[payload |-> [spectrogramWindowCount |-> r.windowCount,
                               spectrogramOptions |-> r.options,
                               spectrogramBuffer |-> r.spectrogramDataLength,
                               inputBuffer |-> data.payload.samplesBuffer]]>>
  ELSE <<[error |-> "Unknown action"]>>

\* queueTask's response handler: reject on a message with an error key, resolve
\* with the payload otherwise
settleTask(data) ==
  IF "error" \in DOMAIN data
  THEN [outcome |-> "rejected", value |-> data.error]
  ELSE [outcome |-> "resolved", value |-> data.payload]

\* The spectrogram of a block: every magnitude computed from block n is
\* represented by the number n
SpectrogramOfBlock(task, scaleSize) ==
  [j \in 1..(scaleSize * numWindowsOf(PipeWindowSize, PipeWindowSize, PipeStepSize,
                                     task.isStart, FALSE)) |-> task.block]

\* --------------------------------------------------- worklet path actions
\* ChannelBufferProcessor posts the next block of every channel; the first
\* message carries isStart
PostBlock(s) ==
  /\ posted < MaxBlocks
  /\ ~worklet[s].isStop
  /\ posted' = posted + 1
  /\ portQueue' = Append(portQueue, [session |-> s, block |-> posted + 1,
                                     isStart |-> worklet[s].isStart])
  /\ worklet' = [worklet EXCEPT ![s].isStart = FALSE]
  /\ UNCHANGED <<stopCallback, stopPort, enqueuedAfterStop>>
  /\ UNCHANGED <<WORKER_POOL, WORKER_QUEUE, onmessage, inbox, outbox, visualizers,
                 enqueuedBlocks, rejected, uploaded>>
  /\ UNCHANGED <<unitVars, uiVars, restVars>>

\* processorNode.port.onmessage with the microtasks it starts
HandlePortMessage ==
  /\ portQueue # <<>>
  /\ LET st == dispatchChannels([pool |-> WORKER_POOL, queue |-> WORKER_QUEUE,
                                 granted |-> <<>>], Head(portQueue), 1)
     IN /\ WORKER_POOL' = st.pool
        /\ WORKER_QUEUE' = st.queue
        /\ onmessage' = Installed(onmessage, st.granted)
        /\ inbox' = Installed(inbox, st.granted)
  /\ portQueue' = Tail(portQueue)
  /\ UNCHANGED <<posted, outbox, visualizers, enqueuedBlocks, rejected, uploaded>>
  /\ UNCHANGED sessionVars
  /\ UNCHANGED <<unitVars, uiVars, restVars>>

\* The helper worker's onmessage: compute and post the payload, or catch and
\* post the error
WorkerCompute(w, fails) ==
  /\ inbox[w] # <<>>
  /\ inbox' = [inbox EXCEPT ![w] = <<>>]
  /\ outbox' = [outbox EXCEPT ![w] =
       <<IF fails
         THEN [error |-> TRUE]
         ELSE [error |-> FALSE,
               spectrogramData |-> SpectrogramOfBlock(inbox[w][1], 1)]>>]
  /\ UNCHANGED <<portQueue, posted, WORKER_POOL, WORKER_QUEUE, onmessage, visualizers,
                 enqueuedBlocks, rejected, uploaded>>
  /\ UNCHANGED sessionVars
  /\ UNCHANGED <<unitVars, uiVars, restVars>>

\* stop() has run for session s: its "stop" message is posted or already handled
Stopped(s) == s \in stopPort \/ worklet[s].isStop

\* Variant: the catch block also empties the channel's buffer
settleUpdate_clearOnError(v, resp) ==
  IF resp.error
  THEN [spectrogramBuffer |-> clear(v.spectrogramBuffer), imageDirty |-> FALSE]
  ELSE [spectrogramBuffer |-> enqueue(v.spectrogramBuffer, resp.spectrogramData),
        imageDirty |-> TRUE]

\* updateSpectrogramBuffer after its await: a payload is enqueued and marks the
\* image dirty; a rejection reaches the catch block, which only resets imageDirty
\* before rethrowing
settleUpdate(v, resp) ==
  IF resp.error
  THEN [v EXCEPT !.imageDirty = FALSE]
  ELSE [spectrogramBuffer |-> enqueue(v.spectrogramBuffer, resp.spectrogramData),
        imageDirty |-> TRUE]

\* worker.onmessage on the main thread (queueTask's handler) with the microtasks
\* it starts: release the worker, hand it to the oldest waiting task, settle the
\* task's promise and run the rest of updateSpectrogramBuffer
HandleWorkerResponse(w) ==
  /\ outbox[w] # <<>>
  /\ outbox' = [outbox EXCEPT ![w] = <<>>]
  /\ IF onmessage[w] = <<>>
     THEN UNCHANGED <<WORKER_POOL, WORKER_QUEUE, onmessage, inbox, visualizers,
                      enqueuedBlocks, rejected, enqueuedAfterStop>>
     ELSE LET task == onmessage[w][1]
              resp == outbox[w][1]
              st == releaseWorker([pool |-> WORKER_POOL, queue |-> WORKER_QUEUE,
                                   granted |-> <<>>], w)
          IN /\ WORKER_POOL' = st.pool
             /\ WORKER_QUEUE' = st.queue
             /\ onmessage' = Installed([onmessage EXCEPT ![w] = <<>>], st.granted)
             /\ inbox' = Installed(inbox, st.granted)
             /\ visualizers' = [visualizers EXCEPT ![task.channel] = settleUpdate(@, resp)]
             /\ IF resp.error
                THEN /\ rejected' = [rejected EXCEPT ![task.channel] = @ \cup {task.block}]
                     /\ UNCHANGED <<enqueuedBlocks, enqueuedAfterStop>>
                ELSE /\ enqueuedBlocks' = [enqueuedBlocks EXCEPT
                                             ![task.channel] = Append(@, task.block)]
                     /\ enqueuedAfterStop' =
                          IF Stopped(task.session)
                          THEN enqueuedAfterStop \cup
                                 {[channel |-> task.channel, session |-> task.session,
                                   block |-> task.block]}
                          ELSE enqueuedAfterStop
                     /\ UNCHANGED rejected
  /\ UNCHANGED <<portQueue, posted, worklet, stopCallback, stopPort, uploaded>>
  /\ UNCHANGED <<unitVars, uiVars, restVars>>

InitPipe ==
  /\ \E n \in 1..MaxWorkers : PipeIdle(n)
  /\ buf = NewBuffer(1, 1, 1)
  /\ rend = NewRenderer(1, 1)
  /\ log = <<>>
  /\ lastOp = [op |-> "new", arg |-> 0]
  /\ pre = [buf |-> buf, op |-> "none"]
  /\ epoch = 0
  /\ enqOnly = TRUE
  /\ sinceUpd = NoUpdateYet
  /\ lastWrites = <<>>

NextPipe ==
  \/ \E s \in DOMAIN worklet : PostBlock(s)
  \/ HandlePortMessage
  \/ \E w \in DOMAIN inbox, fails \in BOOLEAN : WorkerCompute(w, fails)
  \/ \E w \in DOMAIN outbox : HandleWorkerResponse(w)

SpecPipe == InitPipe /\ [][NextPipe]_vars

\* The worklet path in which every posted message is delivered, every worker
\* answers each request it receives (with a payload or an error), and every
\* response is delivered
NextPipeLive ==
  \/ \E s \in DOMAIN worklet : posted < MaxLiveBlocks /\ PostBlock(s)
  \/ HandlePortMessage
  \/ \E w \in DOMAIN inbox, fails \in BOOLEAN : WorkerCompute(w, fails)
  \/ \E w \in DOMAIN outbox : HandleWorkerResponse(w)

SpecPipeLive ==
  /\ InitPipe /\ [][NextPipeLive]_vars
  /\ WF_vars(HandlePortMessage)
  /\ \A w \in 1..MaxWorkers :
       /\ WF_vars(w \in DOMAIN inbox /\ \E fails \in BOOLEAN : WorkerCompute(w, fails))
       /\ WF_vars(w \in DOMAIN outbox /\ HandleWorkerResponse(w))

\* --- the worklet path with the animation frames of each channel's visualizer
\* The render callback of startRendering for channel c: a dirty image is
\* uploaded with updateSpectrogram and marked clean (the texture writes of the
\* upload are followed in SpecRender; here only what the upload has seen)
AnimationFrame(c) ==
  /\ visualizers' = [visualizers EXCEPT ![c].imageDirty = FALSE]
  /\ uploaded' = IF visualizers[c].imageDirty
                 THEN [uploaded EXCEPT ![c] = Len(enqueuedBlocks[c])]
                 ELSE uploaded
  /\ UNCHANGED <<portQueue, posted, WORKER_POOL, WORKER_QUEUE, onmessage, inbox, outbox,
                 enqueuedBlocks, rejected>>
  /\ UNCHANGED sessionVars
  /\ UNCHANGED <<unitVars, uiVars, restVars>>

NextFrames ==
  \/ NextPipe
  \/ \E c \in 1..NumberOfChannels : AnimationFrame(c)

SpecFrames == InitPipe /\ [][NextFrames]_vars

\* --- sessions: setup, stop and the results still in flight
\* setupSpectrogramFromAudioFile / setupSpectrogramFromMicrophone from their last
\* await on: a new AudioWorkletNode (its own processor and port), the port
\* handler, and the stop callback of this session
StartSession ==
  /\ Len(worklet) < MaxSessions
  /\ worklet' = Append(worklet, NewProcessor)
  /\ stopCallback' = Len(worklet) + 1
  /\ UNCHANGED <<stopPort, enqueuedAfterStop>>
  /\ UNCHANGED pipeVars
  /\ UNCHANGED <<unitVars, uiVars, restVars>>

\* SpectrogramManager.stop(): run the stop callback (post "stop" to the session's
\* processor and disconnect the graph), then forget it
Stop ==
  /\ stopPort' = IF stopCallback # NULL THEN stopPort \cup {stopCallback} ELSE stopPort
  /\ stopCallback' = NULL
  /\ UNCHANGED <<worklet, enqueuedAfterStop>>
  /\ UNCHANGED pipeVars
  /\ UNCHANGED <<unitVars, uiVars, restVars>>

\* The processor's port.onmessage receives "stop"
WorkletStop(s) ==
  /\ s \in stopPort
  /\ stopPort' = stopPort \ {s}
  /\ worklet' = [worklet EXCEPT ![s].isStop = TRUE]
  /\ UNCHANGED <<stopCallback, enqueuedAfterStop>>
  /\ UNCHANGED pipeVars
  /\ UNCHANGED <<unitVars, uiVars, restVars>>

InitSession ==
  /\ \E n \in 1..MaxWorkers : PoolIdle(n)
  /\ UiIdle
  /\ RestIdle
  /\ worklet = <<>>
  /\ stopCallback = NULL
  /\ stopPort = {}
  /\ enqueuedAfterStop = {}
  /\ buf = NewBuffer(1, 1, 1)
  /\ rend = NewRenderer(1, 1)
  /\ log = <<>>
  /\ lastOp = [op |-> "new", arg |-> 0]
  /\ pre = [buf |-> buf, op |-> "none"]
  /\ epoch = 0
  /\ enqOnly = TRUE
  /\ sinceUpd = NoUpdateYet
  /\ lastWrites = <<>>

NextSession ==
  \/ StartSession
  \/ Stop
  \/ \E s \in DOMAIN worklet : WorkletStop(s)
  \/ \E s \in DOMAIN worklet : PostBlock(s)
  \/ HandlePortMessage
  \/ \E w \in DOMAIN inbox : WorkerCompute(w, FALSE)
  \/ \E w \in DOMAIN outbox : HandleWorkerResponse(w)

SpecSession == InitSession /\ [][NextSession]_vars

\* --- the controls: starting from the microphone or a file, and stopping
\* A setup promise rejects: App's rejection handler sets the play state
ReportRejection(setup) ==
  /\ playState' = "stopped"
  /\ setupStep' = setup

\* The synchronous tail of a setup after addModule resolved: the worklet node,
\* the port handler, the audio graph and the stop callback; then App's
\* fulfilment handler
FinishSetup(stream) ==
  /\ worklet' = Append(worklet, NewProcessor)
  /\ sessionStream' = Append(sessionStream, stream)
  /\ stopCallback' = Len(worklet) + 1
  /\ playState' = "playing"
  /\ setupStep' = "idle"

\* Controls.onPlayMicrophoneClick -> App.onRenderFromMicrophone, up to the first
\* await (getUserMedia)
ClickMicrophone ==
  /\ playState = "stopped"
  /\ attempts < MaxAttempts
  /\ attempts' = attempts + 1
  /\ playState' = "loading-mic"
  /\ setupStep' = "getUserMedia"
  /\ UNCHANGED <<mediaStreams, sessionStream>>
  /\ UNCHANGED <<unitVars, pipeVars, sessionVars, restVars>>

\* getUserMedia settles: the stream is acquired and setup goes on to addModule,
\* or the promise rejects
MicrophonePermission(granted) ==
  /\ setupStep = "getUserMedia"
  /\ IF granted
     THEN /\ mediaStreams' = mediaStreams \cup {attempts}
          /\ setupStep' = "mic:addModule"
          /\ UNCHANGED playState
     ELSE /\ ReportRejection("mic:rejected")
          /\ UNCHANGED mediaStreams
  /\ UNCHANGED <<attempts, sessionStream>>
  /\ UNCHANGED <<unitVars, pipeVars, sessionVars, restVars>>

\* addModule settles for a microphone setup; when it resolves the
\* AudioWorkletNode constructor runs and may throw
MicrophoneModule(outcome) ==
  /\ setupStep = "mic:addModule"
  /\ IF outcome = "ok"
     THEN /\ FinishSetup(attempts)
          /\ UNCHANGED <<stopPort, enqueuedAfterStop>>
     ELSE /\ ReportRejection("mic:rejected")
          /\ UNCHANGED <<sessionStream, sessionVars>>
  /\ UNCHANGED <<attempts, mediaStreams>>
  /\ UNCHANGED <<unitVars, pipeVars, restVars>>

\* Controls.readFile -> App.onRenderFromFile, up to the first await
\* (decodeAudioData)
ClickFile ==
  /\ playState = "stopped"
  /\ attempts < MaxAttempts
  /\ attempts' = attempts + 1
  /\ playState' = "loading-file"
  /\ setupStep' = "decodeAudioData"
  /\ UNCHANGED <<mediaStreams, sessionStream>>
  /\ UNCHANGED <<unitVars, pipeVars, sessionVars, restVars>>

\* decodeAudioData settles
FileDecoded(ok) ==
  /\ setupStep = "decodeAudioData"
  /\ IF ok
     THEN /\ setupStep' = "file:addModule"
          /\ UNCHANGED playState
     ELSE ReportRejection("file:rejected")
  /\ UNCHANGED <<attempts, mediaStreams, sessionStream>>
  /\ UNCHANGED <<unitVars, pipeVars, sessionVars, restVars>>

\* addModule settles for a file setup
FileModule(outcome) ==
  /\ setupStep = "file:addModule"
  /\ IF outcome = "ok"
     THEN /\ FinishSetup(0)
          /\ UNCHANGED <<stopPort, enqueuedAfterStop>>
     ELSE /\ ReportRejection("file:rejected")
          /\ UNCHANGED <<sessionStream, sessionVars>>
  /\ UNCHANGED <<attempts, mediaStreams>>
  /\ UNCHANGED <<unitVars, pipeVars, restVars>>

\* source.onended of a file session: audioEndCallback only sets the play state
AudioEnded ==
  /\ playState = "playing"
  /\ sessionStream # <<>>
  /\ sessionStream[Len(sessionStream)] = 0
  /\ playState' = "stopped"
  /\ UNCHANGED <<setupStep, attempts, mediaStreams, sessionStream>>
  /\ UNCHANGED <<unitVars, pipeVars, sessionVars, restVars>>

\* Controls.onStopClick: SpectrogramManager.stop() runs the stop callback (post
\* "stop", disconnect, and for a microphone session stop the stream's tracks),
\* then the play state is set
ClickStop ==
  /\ playState = "playing"
  /\ IF stopCallback # NULL
     THEN /\ stopPort' = stopPort \cup {stopCallback}
          /\ mediaStreams' = mediaStreams \ {sessionStream[stopCallback]}
     ELSE UNCHANGED <<stopPort, mediaStreams>>
  /\ stopCallback' = NULL
  /\ playState' = "stopped"
  /\ UNCHANGED <<setupStep, attempts, sessionStream, worklet, enqueuedAfterStop>>
  /\ UNCHANGED <<unitVars, pipeVars, restVars>>

SetupOutcomes == {"ok", "loadFails", "nodeThrows"}

InitControls ==
  /\ PoolIdle(1)
  /\ UiIdle
  /\ RestIdle
  /\ worklet = <<>>
  /\ stopCallback = NULL
  /\ stopPort = {}
  /\ enqueuedAfterStop = {}
  /\ buf = NewBuffer(1, 1, 1)
  /\ rend = NewRenderer(1, 1)
  /\ log = <<>>
  /\ lastOp = [op |-> "new", arg |-> 0]
  /\ pre = [buf |-> buf, op |-> "none"]
  /\ epoch = 0
  /\ enqOnly = TRUE
  /\ sinceUpd = NoUpdateYet
  /\ lastWrites = <<>>

NextControls ==
  \/ ClickMicrophone
  \/ \E granted \in BOOLEAN : MicrophonePermission(granted)
  \/ \E outcome \in SetupOutcomes : MicrophoneModule(outcome)
  \/ ClickFile
  \/ \E ok \in BOOLEAN : FileDecoded(ok)
  \/ \E outcome \in SetupOutcomes : FileModule(outcome)
  \/ AudioEnded
  \/ ClickStop
  \/ \E s \in DOMAIN worklet : WorkletStop(s)

SpecControls == InitControls /\ [][NextControls]_vars

\* --- the audio worklet: chunks in, windows out
\* Everything outside the worklet at rest
UnitIdle ==
  /\ buf = NewBuffer(1, 1, 1)
  /\ rend = NewRenderer(1, 1)
  /\ log = <<>>
  /\ lastOp = [op |-> "new", arg |-> 0]
  /\ pre = [buf |-> buf, op |-> "none"]
  /\ epoch = 0
  /\ enqOnly = TRUE
  /\ sinceUpd = NoUpdateYet
  /\ lastWrites = <<>>

SessionIdle ==
  /\ worklet = <<>>
  /\ stopCallback = NULL
  /\ stopPort = {}
  /\ enqueuedAfterStop = {}

\* The chunk the audio thread delivers for channel c at a given tick: ChunkSize
\* samples, told apart by their values
Chunk(label, c) == [j \in 1..ChunkSize |-> 100 * (c - 1) + (label - 1) * ChunkSize + j]

\* The newest n elements of a sequence (all of it when it is shorter)
Newest(seq, n) == IF Len(seq) <= n THEN seq ELSE SubSeq(seq, Len(seq) - n + 1, Len(seq))

\* The audio thread calls process() with an input of n channels
Process(n) ==
  LET input == [c \in 1..n |-> Chunk(tick, c)]
      active == IF proc.isStop THEN 0 ELSE Min(n, proc.numberOfChannels)
      post == processPost(proc, input)
      next == process(proc, input)
      after == [c \in DOMAIN unposted |->
                  IF c <= active THEN unposted[c] + 1 ELSE unposted[c]]
      held == [c \in DOMAIN unposted |-> Len(next.channelBuffers[c].buffers)]
  IN /\ proc' = next
     /\ lastPost' = post
     /\ lastActive' = active
     /\ tick' = IF active = 0 THEN tick ELSE (tick % NumLabels) + 1
     /\ recent' = [c \in DOMAIN recent |->
                     IF c <= active THEN Newest(recent[c] \o input[c], MaxCapacity)
                     ELSE recent[c]]
     /\ total' = [c \in DOMAIN total |->
                    IF c <= active THEN Min(total[c] + ChunkSize, MaxCapacity)
                    ELSE total[c]]
     /\ lostChunk' = lostChunk \cup {c \in DOMAIN unposted : after[c] > held[c]}
     /\ unposted' = [c \in DOMAIN unposted |->
                       IF post # <<>> /\ c <= active THEN 0 ELSE Min(after[c], held[c])]
     /\ UNCHANGED <<unitVars, pipeVars, sessionVars, uiVars, ringVars, genVars, paramVars, workerVars, flatVars>>

\* The processor's port.onmessage receives "stop"
ProcessorStop ==
  /\ ~proc.isStop
  /\ proc' = [proc EXCEPT !.isStop = TRUE]
  /\ lastPost' = <<>>
  /\ lastActive' = 0
  /\ UNCHANGED <<tick, recent, unposted, lostChunk, total>>
  /\ UNCHANGED <<unitVars, pipeVars, sessionVars, uiVars, ringVars, genVars, paramVars, workerVars, flatVars>>

InitProcessor ==
  /\ UnitIdle
  /\ FlatIdle(1)
  /\ PoolIdle(1)
  /\ SessionIdle
  /\ UiIdle
  /\ RingIdle(1)
  /\ GenIdle
  /\ ParamIdle(1)
  /\ WorkerIdle
  /\ \E numberOfChannels \in 1..NumberOfChannels, spectrogramBufferSize \in 1..MaxCapacity :
       ProcessorIdle(numberOfChannels, spectrogramBufferSize)

NextProcessor ==
  \/ \E n \in 0..NumberOfChannels : Process(n)
  \/ ProcessorStop

SpecProcessor == InitProcessor /\ [][NextProcessor]_vars

\* process() keeps being called with at least one input channel
SpecProcessorLive ==
  SpecProcessor /\ WF_vars(\E n \in 1..NumberOfChannels : Process(n))

\* --- the chunk-list sample buffers: pushes, then shifts
\* A shift has run before the last operation
ShiftedBefore == ringOp.op # "new" /\ ringOp.shifted

ListPush(len) ==
  /\ nextSample + len - 1 <= MaxSamples
  /\ ring' = pushList(ring, [j \in 1..len |-> nextSample + j - 1])
  /\ nextSample' = nextSample + len
  /\ ringOp' = [op |-> "push", shifted |-> ringOp.op = "shift" \/ ShiftedBefore]
  /\ UNCHANGED <<unitVars, pipeVars, sessionVars, uiVars, procVars, genVars, paramVars, workerVars, flatVars>>

ListShift(n) ==
  /\ n <= ring.currentSize
  /\ ring' = shiftList(ring, n).b
  /\ ringOp' = [op |-> "shift", n |-> n, data |-> shiftList(ring, n).data,
                before |-> ring, shifted |-> ringOp.op = "shift" \/ ShiftedBefore]
  /\ UNCHANGED nextSample
  /\ UNCHANGED <<unitVars, pipeVars, sessionVars, uiVars, procVars, genVars, paramVars, workerVars, flatVars>>

InitChunkList ==
  /\ UnitIdle
  /\ FlatIdle(1)
  /\ PoolIdle(1)
  /\ SessionIdle
  /\ UiIdle
  /\ ProcessorIdle(1, ChunkSize)
  /\ GenIdle
  /\ ParamIdle(1)
  /\ WorkerIdle
  /\ \E maxSize \in 1..MaxCapacity : RingIdle(maxSize)

NextChunkList ==
  \/ \E len \in 1..(ChunkSize + 1) : ListPush(len)
  \/ \E n \in 0..MaxCapacity : ListShift(n)

SpecChunkList == InitChunkList /\ [][NextChunkList]_vars

\* --- the flat-array sample buffer: pushes and shifts of any size
FlatPush(len) ==
  /\ flatNext + len - 1 <= MaxSamples
  /\ flat' = pushFlat(flat, [j \in 1..len |-> flatNext + j - 1])
  /\ flatNext' = flatNext + len
  /\ flatOp' = [op |-> "push", before |-> flat, shifts |-> flatOp.shifts]
  /\ UNCHANGED <<unitVars, pipeVars, sessionVars, uiVars, procVars, ringVars, genVars,
                 paramVars, workerVars>>

FlatShift(shiftSize) ==
  /\ flatOp.shifts < MaxShifts
  /\ flat' = shiftFlat(flat, shiftSize).b
  /\ flatOp' = [op |-> "shift", size |-> shiftSize, output |-> shiftFlat(flat, shiftSize).output,
                threw |-> shiftFlat(flat, shiftSize).threw, before |-> flat,
                shifts |-> flatOp.shifts + 1]
  /\ UNCHANGED flatNext
  /\ UNCHANGED <<unitVars, pipeVars, sessionVars, uiVars, procVars, ringVars, genVars,
                 paramVars, workerVars>>

InitFlat ==
  /\ UnitIdle
  /\ PoolIdle(1)
  /\ SessionIdle
  /\ UiIdle
  /\ ProcessorIdle(1, ChunkSize)
  /\ RingIdle(1)
  /\ GenIdle
  /\ ParamIdle(1)
  /\ WorkerIdle
  /\ \E capacity \in 1..MaxFlatCapacity : FlatIdle(capacity)

NextFlat ==
  \/ \E len \in 1..MaxFlatLength : FlatPush(len)
  \/ \E shiftSize \in 0..MaxFlatLength : FlatShift(shiftSize)

SpecFlat == InitFlat /\ [][NextFlat]_vars

\* --- generateSpectrogram called once on arbitrary arguments
\* The arguments of the call: small windows, steps and lengths, and the unit
\* test's call with the default window and step
GenArguments ==
  [windowSize : 1..MaxWindowSize, windowStepSize : 1..MaxStepSize,
   samplesStart : 0..MaxSamplesStart,
   samplesLength : 0..MaxSamplesLength, isStart : BOOLEAN, isEnd : BOOLEAN,
   scaleSize : {NULL} \cup (1..MaxRows), scale : Scale \cup {"log"}]
  \cup
  [windowSize : {SPECTROGRAM_WINDOW_SIZE}, windowStepSize : {SPECTROGRAM_WINDOW_STEPSIZE},
   samplesStart : {0},
   samplesLength : {TestSamplesLength}, isStart : BOOLEAN, isEnd : BOOLEAN,
   scaleSize : {NULL}, scale : Scale \cup {"log"}]

Generate ==
  /\ ~call.made
  /\ call' = [made |-> TRUE, args |-> call.args,
              result |-> generateSpectrogram(call.args.samplesStart,
                                             call.args.samplesLength, call.args.windowSize,
                                             call.args.windowStepSize, call.args.isStart,
                                             call.args.isEnd, call.args.scaleSize,
                                             call.args.scale)]
  /\ UNCHANGED <<unitVars, pipeVars, sessionVars, uiVars, procVars, ringVars, paramVars, workerVars, flatVars>>

InitGenerate ==
  /\ UnitIdle
  /\ FlatIdle(1)
  /\ PoolIdle(1)
  /\ SessionIdle
  /\ UiIdle
  /\ ProcessorIdle(1, ChunkSize)
  /\ RingIdle(1)
  /\ ParamIdle(1)
  /\ WorkerIdle
  /\ \E args \in GenArguments : call = [made |-> FALSE, args |-> args]

NextGenerate == Generate

SpecGenerate == InitGenerate /\ [][NextGenerate]_vars

\* --- the renderer's parameters: updateParameters calls and animation frames
\* Values other than the defaults, one per parameter
OtherParameters ==
  [contrast |-> 0, sensitivity |-> 50 * FixedPoint, zoom |-> 1 * FixedPoint,
   minFrequencyHz |-> 700,
   maxFrequencyHz |-> 6000, sampleRate |-> 44100, windowSize |-> 2048,
   scale |-> "linear", gradient |-> "another gradient"]

Only(name, value) == [n \in {name} |-> value]

\* The arguments of updateParameters: nothing, one field (a new value, the
\* default value, or null), the two fields updateSpectrogramBuffer passes, every
\* field at once, and a scale outside the Scale type
Partials ==
  {<<>>}
  \cup {Only(name, <<OtherParameters[name]>>) : name \in ParameterNames}
  \cup {Only(name, <<DEFAULT_RENDER_PARAMETERS[name]>>) : name \in {"contrast", "scale", "gradient"}}
  \cup {Only(name, <<>>) : name \in {"zoom", "gradient"}}
  \cup {[n \in {"windowSize", "sampleRate"} |-> <<OtherParameters[n]>>]}
  \cup {[n \in ParameterNames |-> <<OtherParameters[n]>>]}
  \cup {Only("scale", <<"log">>)}

UpdateParameters(partial) ==
  /\ gpuOp.updates < MaxUpdates
  /\ gpu' = updateParameters(gpu, partial).r
  /\ gpuOp' = [op |-> "updateParameters", partial |-> partial,
               writes |-> updateParameters(gpu, partial).writes,
               threw |-> updateParameters(gpu, partial).threw,
               updates |-> gpuOp.updates + 1, frames |-> gpuOp.frames]
  /\ UNCHANGED <<unitVars, pipeVars, sessionVars, uiVars, procVars, ringVars, genVars, workerVars, flatVars>>

Render ==
  /\ gpuOp.frames < MaxFrames
  /\ gpu' = render(gpu)
  /\ gpuOp' = [op |-> "render", updates |-> gpuOp.updates, frames |-> gpuOp.frames + 1]
  /\ UNCHANGED <<unitVars, pipeVars, sessionVars, uiVars, procVars, ringVars, genVars, workerVars, flatVars>>

InitParameters ==
  /\ UnitIdle
  /\ FlatIdle(1)
  /\ PoolIdle(1)
  /\ SessionIdle
  /\ UiIdle
  /\ ProcessorIdle(1, ChunkSize)
  /\ RingIdle(1)
  /\ GenIdle
  /\ WorkerIdle
  /\ \E spectrogramHeight \in 1..MaxRows : ParamIdle(spectrogramHeight)

NextParameters ==
  \/ \E partial \in Partials : UpdateParameters(partial)
  \/ Render

SpecParameters == InitParameters /\ [][NextParameters]_vars

\* --- the applied contrast under animation frames, the target held fixed
\* An animation frame; frames counts up to MaxFrames and then stays
Frame ==
  /\ gpu' = render(gpu)
  /\ gpuOp' = [op |-> "render", updates |-> gpuOp.updates,
               frames |-> Min(gpuOp.frames + 1, MaxFrames)]
  /\ UNCHANGED <<unitVars, pipeVars, sessionVars, uiVars, procVars, ringVars, genVars, workerVars, flatVars>>

\* A renderer whose contrast target and applied contrast are any two values
\* of 0..MaxContrast fixed-point units
InitSmoothing ==
  /\ UnitIdle
  /\ FlatIdle(1)
  /\ PoolIdle(1)
  /\ SessionIdle
  /\ UiIdle
  /\ ProcessorIdle(1, ChunkSize)
  /\ RingIdle(1)
  /\ GenIdle
  /\ WorkerIdle
  /\ \E target \in 0..MaxContrast, applied \in 0..MaxContrast :
       gpu = [NewParameterState(1) EXCEPT !.currentContrast = applied,
                                          !.parameters[1].contrast = target]
  /\ gpuOp = [op |-> "new", updates |-> 0, frames |-> 0]

NextSmoothing == Frame

\* requestAnimationFrame keeps calling render()
SpecSmoothing == InitSmoothing /\ [][NextSmoothing]_vars /\ WF_vars(Frame)

\* --- one request to the helper worker and its response
\* The requests: a compute request for each call of GenArguments, and a request
\* with an action the worker does not know
Requests ==
  {[action |-> action,
    payload |-> [samplesBuffer |-> "samples", samplesStart |-> args.samplesStart,
                 samplesLength |-> args.samplesLength,
                 options |-> [isStart |-> args.isStart, isEnd |-> args.isEnd,
                              windowSize |-> args.windowSize,
                              windowStepSize |-> args.windowStepSize,
                              scaleSize |-> args.scaleSize, scale |-> args.scale]]] :
     action \in {ACTION_COMPUTE_SPECTROGRAM, "another action"}, args \in GenArguments}

\* worker.postMessage in queueTask has delivered the request: the worker's
\* onmessage runs
WorkerOnMessage ==
  /\ wk.stage = "sent"
  /\ wk' = [wk EXCEPT !.stage = "answered", !.responses = @ \o workerOnMessage(wk.request)]
  /\ UNCHANGED <<unitVars, pipeVars, sessionVars, uiVars, procVars, ringVars, genVars,
                 paramVars, flatVars>>

\* worker.onmessage on the main thread: the handler removes itself and settles
\* the task with the first response
TaskOnMessage ==
  /\ wk.stage = "answered"
  /\ wk.responses # <<>>
  /\ wk' = [wk EXCEPT !.stage = "settled", !.task = settleTask(wk.responses[1])]
  /\ UNCHANGED <<unitVars, pipeVars, sessionVars, uiVars, procVars, ringVars, genVars,
                 paramVars, flatVars>>

InitWorker ==
  /\ UnitIdle
  /\ FlatIdle(1)
  /\ PoolIdle(1)
  /\ SessionIdle
  /\ UiIdle
  /\ ProcessorIdle(1, ChunkSize)
  /\ RingIdle(1)
  /\ GenIdle
  /\ ParamIdle(1)
  /\ \E request \in Requests :
       wk = [stage |-> "sent", request |-> request, responses |-> <<>>,
             task |-> [outcome |-> "pending"]]

NextWorker ==
  \/ WorkerOnMessage
  \/ TaskOnMessage

SpecWorker == InitWorker /\ [][NextWorker]_vars

\* =================================================================== claims

\* C1: with elementSize 1, after any sequence of enqueue calls on an empty
\* buffer the live logical columns, oldest first, are exactly the last
\* min(T, numColumns) of the T columns enqueued, in enqueue order; in the
\* instance of test/buffer.test.ts (width 3, height 2, four columns) this gives
\* startIndex 1, currentLength 3 and live columns [1,2],[2,3],[3,4].
C1_LiveColumnsAreLastEnqueued ==
  (enqOnly /\ buf.elementSize = 1) =>
    /\ LiveColumns(buf) = LastN(SinceEmpty, Min(Len(SinceEmpty), buf.numColumns))
    /\ (buf.numColumns = 3 /\ buf.numRows = 2 /\ epoch = 0 /\ Len(log) = 4) =>
         /\ buf.startIndex = 1
         /\ buf.currentLength = 3
         /\ LiveColumns(buf) = << <<1, 2>>, <<2, 3>>, <<3, 4>> >>

C1_Witness ==
  /\ enqOnly /\ buf.elementSize = 1 /\ lastOp.op = "enqueue"
  /\ buf.numColumns = 3 /\ buf.numRows = 2 /\ epoch = 0 /\ Len(log) = 4
  /\ buf.startIndex = 1 /\ buf.currentLength = 3
  /\ buf.bufferData = <<3, 4, 1, 2, 2, 3>>

\* C2: enqueue(newData) on a buffer with length L, start s and capacity C
\* appends k = floor(newData.length / (numRows*elementSize)) columns and ends
\* with currentLength = min(L+k, C) and startIndex = (s + max(0, L+k-C)) mod C;
\* C columns into an empty buffer give currentLength C and startIndex 0, and one
\* more single column advances startIndex by one and keeps currentLength C.
C2_EnqueueLengthAndStart ==
  lastOp.op = "enqueue" =>
    LET old == pre.buf
        k == Len(lastOp.arg) \div (old.numRows * old.elementSize)
        C == old.numColumns
    IN /\ buf.currentLength = Min(old.currentLength + k, C)
       /\ buf.startIndex = (old.startIndex + Max(0, old.currentLength + k - C)) % C
       /\ (enqOnly /\ Len(SinceEmpty) = C) =>
            (buf.currentLength = C /\ buf.startIndex = 0)
       /\ (old.currentLength = C /\ k = 1) =>
            (buf.currentLength = C /\ buf.startIndex = (old.startIndex + 1) % C)

C2_Witness ==
  /\ lastOp.op = "enqueue"
  /\ pre.buf.currentLength = pre.buf.numColumns
  /\ pre.buf.numColumns = 3
  /\ pre.buf.startIndex = 1
  /\ Len(lastOp.arg) = 2 * pre.buf.numRows * pre.buf.elementSize + 1
  /\ buf.startIndex = 0

\* C3: in every state reachable by enqueue, resizeWidth(w >= 1) and clear from
\* a buffer constructed with numColumns >= 1, 0 <= currentLength <= numColumns,
\* 0 <= startIndex < numColumns and the storage holds
\* numColumns*numRows*elementSize elements.
C3_BufferInvariant ==
  /\ 0 <= buf.currentLength /\ buf.currentLength <= buf.numColumns
  /\ 0 <= buf.startIndex /\ buf.startIndex < buf.numColumns
  /\ Len(buf.bufferData) = buf.numColumns * buf.numRows * buf.elementSize

C3_Witness ==
  /\ lastOp.op = "resizeWidth"
  /\ pre.buf.startIndex = 2
  /\ lastOp.arg = 2
  /\ buf.numColumns = 2 /\ buf.currentLength = 2 /\ buf.startIndex = 0

\* C4: with elementSize 1, resizeWidth(newWidth) with newWidth # numColumns, from
\* any state (also a wrapped one), leaves numColumns = newWidth, currentLength =
\* min(oldLength, newWidth) and as logical columns exactly the most recent
\* min(oldLength, newWidth) columns that were live, oldest first.
C4_ResizeKeepsMostRecent ==
  (lastOp.op = "resizeWidth" /\ lastOp.arg # pre.buf.numColumns
     /\ buf.elementSize = 1) =>
    LET n == Min(pre.buf.currentLength, lastOp.arg)
    IN /\ buf.numColumns = lastOp.arg
       /\ buf.currentLength = n
       /\ LiveColumns(buf) = LastN(LiveColumns(pre.buf), n)

C4_Witness ==
  /\ lastOp.op = "resizeWidth" /\ buf.elementSize = 1
  /\ pre.buf.numColumns = 3 /\ pre.buf.currentLength = 3
  /\ pre.buf.startIndex = 1
  /\ lastOp.arg = 2
  /\ LiveColumns(buf) = LastN(LiveColumns(pre.buf), 2)

\* C5 (as claimed): after resizeWidth(newWidth) returns, startIndex = 0, for
\* every newWidth >= 1 and every state before the call, also when newWidth
\* equals the current numColumns and the buffer has wrapped.
C5_ResizeAlwaysResetsStart ==
  lastOp.op = "resizeWidth" => buf.startIndex = 0

\* C5 (amended): resizeWidth(newWidth) with newWidth # numColumns ends with
\* startIndex = 0; with newWidth = numColumns it returns at once and leaves the
\* whole buffer, startIndex included, as it was.
C5_ResizeResetsStartUnlessSameWidth ==
  lastOp.op = "resizeWidth" =>
    IF lastOp.arg # pre.buf.numColumns THEN buf.startIndex = 0 ELSE buf = pre.buf

C5_Witness ==
  /\ lastOp.op = "resizeWidth"
  /\ lastOp.arg # pre.buf.numColumns
  /\ pre.buf.startIndex # 0
  /\ buf.startIndex = 0

\* C6 (as claimed): after clear() every storage element is zero, startIndex = 0
\* and currentLength = 0, with numColumns, numRows and elementSize unchanged; a
\* following enqueue of k <= numColumns columns places them at physical columns
\* 0..k-1.
C6_ClearThenEnqueue ==
  /\ lastOp.op = "clear" =>
       /\ buf.bufferData = Zeros(Len(buf.bufferData))
       /\ buf.startIndex = 0 /\ buf.currentLength = 0
       /\ buf.numColumns = pre.buf.numColumns
       /\ buf.numRows = pre.buf.numRows
       /\ buf.elementSize = pre.buf.elementSize
       /\ Len(buf.bufferData) = Len(pre.buf.bufferData)
  /\ (lastOp.op = "enqueue" /\ pre.op = "clear") =>
       LET k == Len(lastOp.arg) \div (buf.numRows * buf.elementSize)
       IN (k <= buf.numColumns) =>
            (\A i \in 0..(k - 1) : Column(buf, i) = InputColumn(buf, lastOp.arg, i))

\* C7: two updateSpectrogram calls without forceFull and without a resizeCanvas
\* in between, with the buffer's startIndex and currentLength the same at both
\* calls: the second call performs no texture write at all.
C7_UnchangedStateWritesNothing ==
  (/\ lastOp.op = "updateSpectrogram" /\ ~lastOp.arg
   /\ lastOp.since.updated /\ ~lastOp.since.canvasResized
   /\ lastOp.since.startIndex = buf.startIndex
   /\ lastOp.since.currentLength = buf.currentLength)
  => lastWrites = <<>>

C7_Witness ==
  /\ lastOp.op = "updateSpectrogram" /\ ~lastOp.arg
  /\ lastOp.since.updated /\ ~lastOp.since.canvasResized
  /\ lastOp.since.startIndex = buf.startIndex
  /\ lastOp.since.currentLength = buf.currentLength
  /\ buf.startIndex = 1
  /\ lastWrites = <<>>

\* C8 (as claimed): when only enqueue mutates the buffer between two consecutive
\* updateSpectrogram calls (the second not forced, prior state recorded), the
\* texture rows the second call writes are exactly the physical columns those
\* enqueues overwrote, so that afterwards texture row p equals buffer column p
\* for every p in 0..numColumns-1.
C8_WritesExactlyOverwrittenColumns ==
  (/\ lastOp.op = "updateSpectrogram" /\ ~lastOp.arg
   /\ lastOp.since.updated /\ ~lastOp.since.canvasResized
   /\ lastOp.since.onlyEnqueue)
  => /\ RowsWritten(lastWrites) = lastOp.since.columns
     /\ \A p \in 0..(buf.numColumns - 1) :
          TextureRow(rend.texture, p) = Column(buf, p)

\* C9: when only enqueue mutates the buffer between two consecutive
\* updateSpectrogram calls and the second is not a full upload, the second call
\* writes at most as many texture rows as columns were enqueued since the first
\* call, and at most numColumns.
C9_UploadBoundedByNewColumns ==
  (/\ lastOp.op = "updateSpectrogram"
   /\ lastOp.since.updated /\ lastOp.since.onlyEnqueue
   /\ ~IsFullUpload(lastWrites))
  => /\ RowCount(lastWrites) <= lastOp.since.count
     /\ RowCount(lastWrites) <= buf.numColumns

C9_Witness ==
  /\ lastOp.op = "updateSpectrogram"
  /\ lastOp.since.updated /\ lastOp.since.onlyEnqueue
  /\ ~IsFullUpload(lastWrites)
  /\ Len(lastWrites) = 2
  /\ RowCount(lastWrites) = 2
  /\ lastOp.since.count = 2

\* C10 (as claimed): within one channel, in the worklet-driven paths, the
\* columns are enqueued in the order in which the worklet posted their audio
\* blocks, for every pool size and every interleaving of worker responses: the
\* result of a later block is never enqueued before that of an earlier block.
C10_EnqueuedInPostedOrder ==
  \A c \in 1..NumberOfChannels :
    \A i, j \in 1..Len(enqueuedBlocks[c]) :
      i < j => enqueuedBlocks[c][i] < enqueuedBlocks[c][j]

\* C12: a compute request that is rejected inside updateSpectrogramBuffer
\* enqueues nothing: the step that handles a worker's error response leaves the
\* channel's Circular2DDataBuffer (storage, startIndex, currentLength) exactly
\* as it was, and the block's promise is rejected towards the caller.
C12_RejectedComputeEnqueuesNothing ==
  [][\A w \in DOMAIN outbox :
       (/\ outbox[w] # <<>> /\ outbox'[w] = <<>>
        /\ onmessage[w] # <<>>
        /\ outbox[w][1].error)
       => LET task == onmessage[w][1]
          IN /\ visualizers'[task.channel].spectrogramBuffer
                  = visualizers[task.channel].spectrogramBuffer
             /\ task.block \in rejected'[task.channel]
             /\ enqueuedBlocks' = enqueuedBlocks]_vars

\* A channel whose buffer holds the columns of block 1 has had the compute of
\* block 2 rejected
C12_Witness ==
  \E c \in 1..NumberOfChannels :
    /\ enqueuedBlocks[c] = <<1>>
    /\ 2 \in rejected[c]
    /\ visualizers[c].spectrogramBuffer.currentLength > 0
    /\ ~visualizers[c].imageDirty

\* C11 (as claimed): after SpectrogramManager.stop() has run, no column computed
\* from audio of the stopped session is enqueued into any channel's buffer any
\* more; results that were in flight at the stop are discarded, also when a new
\* session is started right afterwards.
C11_NothingEnqueuedAfterStop ==
  enqueuedAfterStop = {}

\* C13 (as claimed): if setupSpectrogramFromMicrophone rejects at any of its
\* steps (microphone permission, worklet module load, worklet node
\* construction), then when the rejection is reported no microphone stream
\* remains acquired, no stop callback is registered, and the play state is
\* 'stopped' again.
C13_RejectedMicrophoneSetupIsAbandoned ==
  (setupStep = "mic:rejected")
  => /\ mediaStreams = {}
     /\ stopCallback = NULL
     /\ playState = "stopped"

\* C14 (as claimed): no audio data is lost in the worklet: for every
\* spectrogramBufferSize that is a positive multiple of the chunk size, every
\* chunk delivered to process() for an active channel is carried by at least one
\* posted buffer; so no channel ever evicts a chunk that no message has carried.
C14_NoChunkLost ==
  (proc.spectrogramBufferSize % ChunkSize = 0) => lostChunk = {}

\* C15: a message is posted only on a process() call at which every active
\* channel's buffer holds at least spectrogramBufferSize samples, and every
\* buffer of the message holds exactly spectrogramBufferSize samples, the most
\* recently pushed samples of its channel in arrival order.
C15_PostedWindowIsNewestSamples ==
  (lastPost # <<>>) =>
     LET buffers == lastPost[1].processedBuffers
     IN /\ Len(buffers) = lastActive
        /\ \A c \in 1..lastActive :
             /\ size(proc.channelBuffers[c]) >= proc.spectrogramBufferSize
             /\ Len(buffers[c]) = proc.spectrogramBufferSize
             /\ buffers[c] = Newest(recent[c], proc.spectrogramBufferSize)

\* Two channels post a window that is not the first one, after older chunks
\* were evicted
C15_Witness ==
  /\ lastPost # <<>>
  /\ lastActive = 2
  /\ ~lastPost[1].isStart
  /\ proc.spectrogramBufferSize = 2 * ChunkSize
  /\ total[1] > proc.spectrogramBufferSize
  /\ Len(lastPost[1].processedBuffers[2]) = proc.spectrogramBufferSize

\* C16 (as claimed): for every spectrogramBufferSize >= 1, once the chunks
\* pushed to every channel total at least spectrogramBufferSize samples and
\* process() keeps being called, the processor eventually posts a message.
C16_EventuallyPosts ==
  [](((\A c \in DOMAIN total : total[c] >= proc.spectrogramBufferSize) /\ ~proc.isStop)
       => <>(lastPost # <<>> \/ proc.isStop))

\* C17: after any sequence of pushes of correctly sized chunks, size() <=
\* capacity holds after every push, for every capacity >= 1, also one that is
\* not a multiple of the chunk size.
C17_SizeWithinCapacity ==
  \A c \in DOMAIN proc.channelBuffers :
    size(proc.channelBuffers[c]) <= proc.channelBuffers[c].capacity

\* A buffer whose capacity is not a multiple of the chunk size has evicted
\* chunks and still holds samples
C17_Witness ==
  \E c \in DOMAIN proc.channelBuffers :
    /\ proc.channelBuffers[c].capacity % ChunkSize # 0
    /\ proc.channelBuffers[c].capacity > ChunkSize
    /\ total[c] > proc.channelBuffers[c].capacity
    /\ size(proc.channelBuffers[c]) > 0
    /\ c \in lostChunk

\* C19 (as claimed): shiftAll() drains the buffer: after the process() call that
\* posted the result of shiftAll() for every active channel, size() == 0 for
\* those channels, so a second shiftAll() returns an empty array.
C19_ShiftAllDrains ==
  (lastPost # <<>>) =>
     \A c \in 1..lastActive :
       /\ size(proc.channelBuffers[c]) = 0
       /\ shiftAll(proc.channelBuffers[c]) = <<>>

\* C18 (as claimed): in the chunk-list buffers, after any sequence of pushes,
\* shift(n) with 0 <= n <= size() returns exactly the oldest n buffered samples
\* in their original order (splitting a chunk when n ends inside one), leaves
\* the remaining samples buffered in their original order, and reduces size()
\* by exactly n.
C18_ShiftReturnsOldestSamples ==
  (ringOp.op = "shift" /\ ~ringOp.shifted) =>
     LET samples == Concat(ringOp.before.buffer)
     IN /\ ringOp.data = SubSeq(samples, 1, ringOp.n)
        /\ Concat(ring.buffer) = SubSeq(samples, ringOp.n + 1, Len(samples))
        /\ ring.currentSize = ringOp.before.currentSize - ringOp.n

\* C20: for integers W >= 1, S >= 1 and L >= 0, generateSpectrogram returns
\* windowCount = max(0, ceil((L - W)/S + 1)) + floor(W/S) * ((1 if isStart) +
\* (1 if isEnd)); windowCount is 0 with an empty data buffer whenever
\* L <= W - S and neither flag is set; and for W = 4096, S = 1024, L = 5 it is
\* 0 without flags and 8 with both flags.
C20_WindowCount ==
  (call.made /\ call.args.scale \in Scale) =>
    LET W == call.args.windowSize
        S == call.args.windowStepSize
        L == call.args.samplesLength
        \* ceil((L - W)/S + 1): the least integer k with (k - 1) * S >= L - W
        ceiling == CHOOSE k \in (0 - W)..(L + 1) :
                     (k - 1) * S >= L - W /\ (k - 2) * S < L - W
        \* floor(W/S): the greatest integer f with f * S <= W
        padding == CHOOSE f \in 0..W : f * S <= W /\ (f + 1) * S > W
        flags == (IF call.args.isStart THEN 1 ELSE 0) + (IF call.args.isEnd THEN 1 ELSE 0)
    IN /\ ~call.result.error
       /\ call.result.windowCount
            = (IF ceiling > 0 THEN ceiling ELSE 0) + padding * flags
       /\ (L <= W - S /\ flags = 0) =>
            (call.result.windowCount = 0 /\ call.result.spectrogramDataLength = 0)
       /\ (W = 4096 /\ S = 1024 /\ L = 5) =>
            /\ flags = 0 => call.result.windowCount = 0
            /\ flags = 2 => call.result.windowCount = 8

\* C20 witness: a call with both flags whose last window is partial, so that
\* the ceiling and the padding both count
C20_Witness ==
  /\ call.made
  /\ ~call.result.error
  /\ call.args.isStart /\ call.args.isEnd
  /\ call.args.samplesLength > call.args.windowSize
  /\ (call.args.samplesLength - call.args.windowSize) % call.args.windowStepSize # 0
  /\ call.args.windowSize \div call.args.windowStepSize >= 2
  /\ call.result.windowCount >= 6

\* C21: for all valid inputs (integer windowSize, stepSize, scaleSize >= 1, any
\* rangeLength >= 0, any combination of isStart/isEnd) the result of
\* generateSpectrogram has spectrogramData.length = windowCount * scaleSize
\* exactly, windowCount >= 0, and window w writes only the result indices
\* w * scaleSize .. w * scaleSize + scaleSize - 1.
C21_ResultLayout ==
  (/\ call.made
   /\ call.args.scale \in Scale
   /\ call.args.scaleSize # NULL \/ call.args.windowSize % 2 = 0) =>
    LET scaleSize == IF call.args.scaleSize = NULL THEN call.args.windowSize \div 2
                     ELSE call.args.scaleSize
        r == call.result
    IN /\ ~r.error
       /\ r.windowCount >= 0
       /\ r.spectrogramDataLength = r.windowCount * scaleSize
       /\ Len(r.writes) = r.windowCount
       /\ \A w \in 0..(r.windowCount - 1) :
            r.writes[w + 1] = (w * scaleSize)..(w * scaleSize + scaleSize - 1)

\* C21 witness: a result of several windows of several rows each
C21_Witness ==
  /\ call.made
  /\ call.args.scale = "mel"
  /\ call.args.scaleSize = 2
  /\ ~call.result.error
  /\ call.result.windowCount >= 3
  /\ call.result.writes[3] = {4, 5}

\* C22 (as claimed): generateSpectrogram called with a scale value other than
\* 'linear' or 'mel' fails with an error instead of returning a result, for
\* every sample range and every combination of the other options.
C22_UnknownScaleFails ==
  (call.made /\ call.args.scale \notin Scale) => call.result.error

\* C23: updateParameters(partial) sets every field supplied with a non-null
\* value to that value and leaves every field that is not supplied at its
\* previous value; the defaults are used only for fields that have no previous
\* value (the constructor's first call), so updateParameters({}) after
\* initialization leaves all nine parameters unchanged.
C23_PartialMerge ==
  /\ gpu.parameters = <<DEFAULT_RENDER_PARAMETERS>>
  /\ [][(gpuOp'.op = "updateParameters" /\ ~gpuOp'.threw) =>
          \A name \in ParameterNames :
             gpu'.parameters[1][name] =
               IF name \in DOMAIN gpuOp'.partial /\ gpuOp'.partial[name] # <<>>
               THEN gpuOp'.partial[name][1]
               ELSE gpu.parameters[1][name]]_vars

\* C23 witness: a call that supplies only the contrast, on a renderer whose
\* sensitivity an earlier call had changed
C23_Witness ==
  /\ gpuOp.op = "updateParameters"
  /\ gpuOp.partial = Only("contrast", <<0>>)
  /\ gpu.parameters[1].contrast = 0
  /\ gpu.parameters[1].sensitivity = 50 * FixedPoint
  /\ gpu.parameters[1].zoom = 4 * FixedPoint

\* C24: for every compute request sent to the helper worker, the worker posts
\* exactly one response, which carries either a payload (window count, resolved
\* options, spectrogram buffer, input buffer) or an error, never both and never
\* a partial result; the dispatcher resolves the task on a payload response and
\* rejects it on an error response, and an unknown action yields an error
\* response.
C24_OneResponsePerRequest ==
  /\ wk.stage \in {"answered", "settled"} =>
       /\ Len(wk.responses) = 1
       /\ DOMAIN wk.responses[1] \in {{"payload"}, {"error"}}
       /\ "payload" \in DOMAIN wk.responses[1] =>
            DOMAIN wk.responses[1].payload =
              {"spectrogramWindowCount", "spectrogramOptions", "spectrogramBuffer",
               "inputBuffer"}
       /\ wk.request.action # "spectrogram-compute" => "error" \in DOMAIN wk.responses[1]
  /\ wk.stage = "settled" =>
       /\ wk.task.outcome = "resolved" <=> "payload" \in DOMAIN wk.responses[1]
       /\ wk.task.outcome = "rejected" <=> "error" \in DOMAIN wk.responses[1]
       /\ wk.task.outcome = "resolved" => wk.task.value = wk.responses[1].payload

\* C24 witness: a compute request whose generateSpectrogram call threw has been
\* answered with an error and its task rejected
C24_Witness ==
  /\ wk.stage = "settled"
  /\ wk.request.action = "spectrogram-compute"
  /\ wk.request.payload.options.scale = "log"
  /\ wk.task.outcome = "rejected"

\* C25 (as claimed): updateSpectrogram uploads the entire buffer with a single
\* texture write if and only if forceFull is true or no prior update state is
\* recorded.
C25_EntireBufferInOneWriteIff ==
  lastOp.op = "updateSpectrogram" =>
    ((Len(lastWrites) = 1 /\ RowsWritten(lastWrites) = 0..(buf.numColumns - 1))
       <=> (lastOp.arg \/ ~lastOp.since.updated \/ lastOp.since.canvasResized))

\* C25 (amended): updateSpectrogram re-specifies the whole texture with one
\* texImage2D call if and only if forceFull is true or no prior update state is
\* recorded, and issues only texSubImage2D calls otherwise; no prior state is
\* recorded exactly before the first update after construction and before the
\* first update after each resizeCanvas call, and fastResizeCanvas leaves the
\* recorded state as the last update left it.
C25_FullUploadIffForcedOrUnrecorded ==
  /\ lastOp.op = "updateSpectrogram" =>
       IF lastOp.arg \/ ~lastOp.since.updated \/ lastOp.since.canvasResized
       THEN lastWrites = <<[call |-> "texImage2D", dataStart |-> 0,
                            height |-> buf.numColumns]>>
       ELSE ~IsFullUpload(lastWrites)
  /\ (rend.lastSpectrogramStart = NULL) <=> (~sinceUpd.updated \/ sinceUpd.canvasResized)
  /\ sinceUpd.updated =>
       /\ rend.lastSpectrogramLength = sinceUpd.currentLength
       /\ ~sinceUpd.canvasResized => rend.lastSpectrogramStart = sinceUpd.startIndex

\* C25 witness: a non-forced update, the first one after a resizeCanvas that
\* followed an earlier update, has uploaded a buffer that holds columns
C25_Witness ==
  /\ lastOp.op = "updateSpectrogram"
  /\ ~lastOp.arg
  /\ lastOp.since.updated
  /\ lastOp.since.canvasResized
  /\ IsFullUpload(lastWrites)
  /\ buf.currentLength > 1

\* C26: in a non-forced updateSpectrogram with recorded prior state where the
\* buffer's startIndex differs from the recorded one, the rows written are
\* exactly the physical rows [oldStart, newStart) when newStart >= oldStart, and
\* exactly the two spans [oldStart, numColumns) and [0, newStart) when
\* newStart < oldStart; no other row is written. Afterwards the recorded start
\* and length equal the buffer's current startIndex and currentLength.
C26_StartMovedWritesTheSpanBetween ==
  (/\ lastOp.op = "updateSpectrogram" /\ ~lastOp.arg
   /\ lastOp.since.updated /\ ~lastOp.since.canvasResized
   /\ lastOp.since.startIndex # buf.startIndex)
  => LET oldStart == lastOp.since.startIndex
         newStart == buf.startIndex
         spans == {<<lastWrites[i].dataStart, lastWrites[i].height>> :
                     i \in 1..Len(lastWrites)}
     IN /\ ~IsFullUpload(lastWrites)
        /\ IF newStart >= oldStart
           THEN /\ spans = {<<oldStart, newStart - oldStart>>}
                /\ RowsWritten(lastWrites) = oldStart..(newStart - 1)
           ELSE /\ spans = {<<oldStart, buf.numColumns - oldStart>>, <<0, newStart>>}
                /\ RowsWritten(lastWrites)
                     = (oldStart..(buf.numColumns - 1)) \cup (0..(newStart - 1))
        /\ \A p \in RowsWritten(lastWrites) : TextureRow(rend.texture, p) = Column(buf, p)
        /\ rend.lastSpectrogramStart = buf.startIndex
        /\ rend.lastSpectrogramLength = buf.currentLength

\* C26 witness: the start wrapped past the end of the array between two
\* updates, and the second update wrote two non-empty spans
C26_Witness ==
  /\ lastOp.op = "updateSpectrogram" /\ ~lastOp.arg
  /\ lastOp.since.updated /\ ~lastOp.since.canvasResized
  /\ buf.startIndex < lastOp.since.startIndex
  /\ buf.startIndex >= 1
  /\ Len(lastWrites) = 2
  /\ RowsWritten(lastWrites) = {0, 2}

\* C27 (as claimed): when a CircularDataBuffer.push makes the stored samples
\* exceed the capacity, only the oldest whole chunks are evicted and only as
\* many as needed to get back within capacity: after every push the buffer
\* holds exactly the newest floor(capacity / chunkSize) chunks in arrival order
\* (all of them while fewer were pushed), and the chunk just pushed is always
\* among them.
C27_PushKeepsNewestChunks ==
  \A c \in DOMAIN proc.channelBuffers :
    LET b == proc.channelBuffers[c]
        keep == (b.capacity \div b.bufferSize) * b.bufferSize
    IN /\ shiftAll(b) = Newest(recent[c], Min(total[c], keep))
       /\ total[c] > 0 =>
            /\ b.buffers # <<>>
            /\ b.buffers[Len(b.buffers)] = Newest(recent[c], b.bufferSize)

\* C28 (as claimed): on the flat-array depCircularDataBuffer, shift(n) with n
\* greater than size() either fails or returns only the samples that were
\* available, and in every state any sequence of pushes and shifts (over-long
\* shifts included) can reach, 0 <= size() <= capacity.
C28_FlatSizeWithinCapacity ==
  /\ 0 <= sizeFlat(flat) /\ sizeFlat(flat) <= flat.maxSize
  /\ (flatOp.op = "shift" /\ flatOp.size > sizeFlat(flatOp.before)) =>
       \/ flatOp.threw
       \/ Len(flatOp.output) = sizeFlat(flatOp.before)

\* C29: after initialization, updateParameters regenerates the gradient lookup
\* texture only if the merged gradient differs from the previous one, and the
\* frequency-scale lookup texture only if at least one of scale, minFrequencyHz,
\* maxFrequencyHz, sampleRate or windowSize differs; a call that changes none
\* of the nine parameters writes no lookup texture, and a texture that is not
\* written keeps its content.
C29_LookupTexturesOnlyOnChange ==
  /\ gpu.parameters # <<>>
  /\ [][gpuOp'.op = "updateParameters" =>
          LET old == gpu.parameters[1]
              new == newParametersOf(gpu, gpuOp'.partial)
          IN /\ "gradient" \in gpuOp'.writes => new.gradient # old.gradient
             /\ "scale" \in gpuOp'.writes =>
                  \E name \in {"scale", "minFrequencyHz", "maxFrequencyHz", "sampleRate",
                               "windowSize"} : new[name] # old[name]
             /\ (\A name \in ParameterNames : new[name] = old[name]) => gpuOp'.writes = {}
             /\ "gradient" \notin gpuOp'.writes => gpu'.gradientTexture = gpu.gradientTexture
             /\ "scale" \notin gpuOp'.writes => gpu'.scaleTexture = gpu.scaleTexture]_vars

\* C29 witness: a second call that supplies the gradient already in use and
\* writes no lookup texture, after a first call that changed the gradient and
\* with it the gradient texture
C29_Witness ==
  /\ gpuOp.op = "updateParameters"
  /\ gpuOp.updates = 2
  /\ gpuOp.partial = Only("gradient", <<"another gradient">>)
  /\ gpuOp.writes = {}
  /\ gpu.parameters[1].gradient = "another gradient"
  /\ gpu.gradientTexture = updateGradientTexture("another gradient")
  /\ gpu.gradientTexture # NewParameterState(gpu.spectrogramHeight).gradientTexture

\* C30 (as claimed): contrast, sensitivity, zoom and the visible scale range
\* are never applied directly: updateParameters changes only the targets, so
\* currentContrast, currentSensitivity, currentZoom and currentScaleRange are
\* the same immediately before and after every updateParameters call made after
\* initialization, and change only inside render().
C30_AppliedValuesChangeOnlyInRender ==
  /\ gpu.parameters # <<>>
  /\ [][gpuOp'.op = "updateParameters" =>
          /\ gpu'.currentContrast = gpu.currentContrast
          /\ gpu'.currentSensitivity = gpu.currentSensitivity
          /\ gpu'.currentZoom = gpu.currentZoom
          /\ gpu'.currentScaleRange = gpu.currentScaleRange]_vars

\* C30 (amended): updateParameters never changes currentContrast,
\* currentSensitivity or currentZoom, which change only inside render(). A call
\* that regenerates the frequency-scale texture (scale, sampleRate or
\* windowSize changed) sets currentScaleRange to the new scale range at once;
\* every other call leaves currentScaleRange unchanged, and apart from such
\* calls currentScaleRange changes only inside render().
C30_OnlyScaleRangeSnaps ==
  /\ gpu.parameters # <<>>
  /\ [][/\ gpuOp'.op = "updateParameters" =>
             /\ gpu'.currentContrast = gpu.currentContrast
             /\ gpu'.currentSensitivity = gpu.currentSensitivity
             /\ gpu'.currentZoom = gpu.currentZoom
             /\ "scale" \in gpuOp'.writes => gpu'.currentScaleRange = gpu'.scaleRange
             /\ "scale" \notin gpuOp'.writes => gpu'.currentScaleRange = gpu.currentScaleRange
        /\ (\/ gpu'.currentContrast # gpu.currentContrast
            \/ gpu'.currentSensitivity # gpu.currentSensitivity
            \/ gpu'.currentZoom # gpu.currentZoom) => gpuOp'.op = "render"
        /\ gpu'.currentScaleRange # gpu.currentScaleRange =>
             \/ gpuOp'.op = "render"
             \/ gpuOp'.op = "updateParameters" /\ "scale" \in gpuOp'.writes]_vars

\* C30 witness: updateParameters({scale: "linear"}) after a call that set the
\* contrast target to 0: the linear scale range is in use at once while the
\* applied contrast is still the initial one
C30_Witness ==
  /\ gpuOp.op = "updateParameters"
  /\ gpuOp.partial = Only("scale", <<"linear">>)
  /\ "scale" \in gpuOp.writes
  /\ gpu.currentScaleRange = gpu.scaleRange
  /\ gpu.currentScaleRange # NewParameterState(gpu.spectrogramHeight).currentScaleRange
  /\ gpu.parameters[1].contrast = 0
  /\ gpu.currentContrast = 25 * FixedPoint

\* C31 (as claimed): with the contrast target held fixed at any value >= 0 and
\* from any applied contrast >= 0, repeated render() calls bring the applied
\* contrast to the target after finitely many frames (to exactly 0 when the
\* target is below 0.05), and it stays there.
C31_ContrastReachesTarget ==
  <>[](gpu.currentContrast =
         IF gpu.parameters[1].contrast < ContrastFloor THEN 0 ELSE gpu.parameters[1].contrast)

\* C32 (as claimed): for every elementSize >= 1, enqueue copies each of the
\* k = floor(newData.length / (numRows * elementSize)) incoming columns whole:
\* input column i, of numRows * elementSize elements, is stored unchanged in
\* the numRows * elementSize storage elements of its target physical column
\* (checked for the columns a later column of the same call does not
\* overwrite), and resizeWidth preserves the retained columns element for
\* element.
C32_ColumnsCopiedWhole ==
  /\ lastOp.op = "enqueue" =>
       LET k == Len(lastOp.arg) \div (buf.numRows * buf.elementSize)
       IN \A i \in Max(0, k - buf.numColumns)..(k - 1) :
            Column(buf, (pre.buf.startIndex + pre.buf.currentLength + i) % buf.numColumns)
              = InputColumn(buf, lastOp.arg, i)
  /\ (lastOp.op = "resizeWidth" /\ lastOp.arg # pre.buf.numColumns) =>
       LiveColumns(buf) = LastN(LiveColumns(pre.buf), Min(pre.buf.currentLength, lastOp.arg))

\* C33 (as claimed): whenever a channel's buffer holds columns enqueued after
\* the most recent updateSpectrogram call, the visualizer's imageDirty is true
\* (so the next animation frame uploads them), for every interleaving of
\* successful and failed compute completions and animation frames.
C33_PendingColumnsAreDirty ==
  \A c \in 1..NumberOfChannels :
    Len(enqueuedBlocks[c]) > uploaded[c] => visualizers[c].imageDirty

\* C34: in every state reached from a buffer constructed with the default
\* startIndex and currentLength by enqueue, resizeWidth and clear, startIndex
\* # 0 implies currentLength = numColumns: a buffer that is not full has its
\* live columns at physical columns 0..currentLength-1, which the renderer's
\* length-growth upload of rows [oldLength, newLength) relies on.
C34_WrappedOnlyWhenFull ==
  /\ buf.startIndex # 0 => buf.currentLength = buf.numColumns
  /\ buf.currentLength < buf.numColumns =>
       LiveColumns(buf) = [i \in 1..buf.currentLength |-> Column(buf, i - 1)]

\* C34 witness: a resized, partly filled buffer that an enqueue fills and wraps
C34_Witness ==
  /\ lastOp.op = "enqueue" /\ pre.op = "resizeWidth"
  /\ pre.buf.startIndex = 0 /\ pre.buf.currentLength < pre.buf.numColumns
  /\ buf.startIndex # 0 /\ buf.currentLength = buf.numColumns

\* C35: in the worker pool every worker has at most one outstanding request at
\* every moment: a worker is busy exactly from being handed to a task until
\* that task's response has been received; in between it holds that task's
\* handler and its one request or response, and is handed to no other task
\* (also when it is passed directly to a waiting task on release); each response
\* settles the task that sent the request to that worker.
C35_OneRequestPerWorker ==
  /\ [](\A w \in DOMAIN WORKER_POOL :
          /\ WORKER_POOL[w].busy <=> onmessage[w] # <<>>
          /\ onmessage[w] # <<>> <=> (inbox[w] # <<>> \/ outbox[w] # <<>>)
          /\ ~(inbox[w] # <<>> /\ outbox[w] # <<>>)
          /\ inbox[w] # <<>> => inbox[w] = onmessage[w]
          /\ (outbox[w] # <<>> /\ ~outbox[w][1].error) =>
               outbox[w][1].spectrogramData = SpectrogramOfBlock(onmessage[w][1], 1)
          /\ \A v \in DOMAIN WORKER_POOL :
               (v # w /\ onmessage[w] # <<>>) => onmessage[v] # onmessage[w]
          /\ \A i \in 1..Len(WORKER_QUEUE) :
               onmessage[w] # <<WORKER_QUEUE[i]>>)
  /\ [][\A w \in DOMAIN WORKER_POOL :
          /\ (onmessage'[w] # onmessage[w] /\ onmessage'[w] # <<>>) =>
               /\ inbox[w] = <<>>
               /\ \/ onmessage[w] = <<>> /\ outbox[w] = <<>> /\ ~WORKER_POOL[w].busy
                  \/ outbox[w] # <<>> /\ outbox'[w] = <<>>
               /\ inbox'[w] = onmessage'[w]
          /\ (outbox[w] # <<>> /\ outbox'[w] = <<>>) =>
               LET task == onmessage[w][1]
               IN IF outbox[w][1].error
                  THEN /\ rejected'[task.channel] = rejected[task.channel] \cup {task.block}
                       /\ enqueuedBlocks' = enqueuedBlocks
                  ELSE /\ enqueuedBlocks'[task.channel] =
                            Append(enqueuedBlocks[task.channel], task.block)
                       /\ rejected' = rejected]_vars

\* C35 witness: a worker that was released straight to a waiting task, busy
\* with that task's request, while another task still waits
C35_Witness ==
  \E w \in DOMAIN WORKER_POOL :
    /\ WORKER_POOL[w].busy
    /\ inbox[w] # <<>> /\ inbox[w] = onmessage[w]
    /\ Len(enqueuedBlocks[1]) + Cardinality(rejected[1]) +
       Len(enqueuedBlocks[2]) + Cardinality(rejected[2]) > 0
    /\ WORKER_QUEUE # <<>>

\* The tasks dispatched and not yet settled: waiting for a worker, or holding one
WaitingTasks == {WORKER_QUEUE[i] : i \in 1..Len(WORKER_QUEUE)}
AssignedTasks == {onmessage[w][1] : w \in {v \in DOMAIN onmessage : onmessage[v] # <<>>}}

\* The task of channel c for block b has been settled
SettledTask(c, b) ==
  \/ \E i \in 1..Len(enqueuedBlocks[c]) : enqueuedBlocks[c][i] = b
  \/ b \in rejected[c]

\* C36: tasks that find no idle worker wait in WORKER_QUEUE and are handed
\* released workers in arrival (FIFO) order: the queue grows only at its tail
\* and shrinks only by its head, which goes to the worker released in that
\* step. Provided every worker answers each request it receives, every
\* dispatched task is eventually assigned a worker and settled: a task stops
\* being outstanding only by being settled, and again and again no task is
\* outstanding. Whenever no task is outstanding, every worker is idle and the
\* wait queue is empty.
C36_QueuedTasksServedInOrder ==
  /\ [][\/ /\ Len(WORKER_QUEUE') >= Len(WORKER_QUEUE)
           /\ SubSeq(WORKER_QUEUE', 1, Len(WORKER_QUEUE)) = WORKER_QUEUE
        \/ /\ WORKER_QUEUE # <<>>
           /\ WORKER_QUEUE' = Tail(WORKER_QUEUE)
           /\ \E w \in DOMAIN outbox :
                /\ outbox[w] # <<>> /\ outbox'[w] = <<>>
                /\ onmessage'[w] = <<Head(WORKER_QUEUE)>>]_vars
  /\ [][\A t \in WaitingTasks \cup AssignedTasks :
          \/ t \in WaitingTasks' \cup AssignedTasks'
          \/ SettledTask(t.channel, t.block)']_vars
  /\ []<>(WaitingTasks \cup AssignedTasks = {})
  /\ []((WaitingTasks \cup AssignedTasks = {}) =>
          /\ \A w \in DOMAIN WORKER_POOL : ~WORKER_POOL[w].busy
          /\ WORKER_QUEUE = <<>>
          /\ \A w \in DOMAIN inbox : inbox[w] = <<>> /\ outbox[w] = <<>>)

\* C36 witness: two tasks waited, the older one has been handed the released
\* worker and the younger one still waits
C36_Witness ==
  /\ Len(WORKER_QUEUE) = 1
  /\ \E w \in DOMAIN onmessage :
       /\ onmessage[w] # <<>>
       /\ onmessage[w][1].block = 2
       /\ onmessage[w][1].channel = 1
       /\ WORKER_QUEUE[1].block = 2 /\ WORKER_QUEUE[1].channel = 2
  /\ Len(enqueuedBlocks[1]) + Cardinality(rejected[1]) = 1
  /\ Cardinality(DOMAIN WORKER_POOL) = 1

\* C37: within one ChannelBufferProcessor instance, exactly the first posted
\* message carries isStart = true and every later one carries false: the
\* processor starts with isStart set, a message carries the flag as it is when
\* the message is posted, posting clears it and nothing sets it again. Once the
\* processor has received "stop", process() changes nothing and posts no
\* message.
C37_OnlyFirstMessageIsStart ==
  /\ proc.isStart /\ ~proc.isStop /\ lastPost = <<>>
  /\ [][/\ lastPost' # <<>> =>
             /\ ~proc.isStop
             /\ lastPost'[1].isStart = proc.isStart
             /\ ~proc'.isStart
        /\ lastPost' = <<>> => proc'.isStart = proc.isStart
        /\ proc.isStop => (proc' = proc /\ lastPost' = <<>>)]_vars

\* C37 witness: a message posted after the first one, carrying isStart = false
C37_Witness ==
  /\ lastPost # <<>>
  /\ ~lastPost[1].isStart
  /\ ~proc.isStart /\ ~proc.isStop
  /\ lastActive > 0

\* C38: for integers with 1 <= stepSize <= windowSize and rangeLength >
\* windowSize - stepSize, and with neither edge flag set, window k of
\* generateSpectrogram (k in 0..windowCount-1) reads the sample indices
\* rangeStart + k*stepSize .. rangeStart + k*stepSize + windowSize - 1; together
\* the windows cover every sample index of [rangeStart, rangeStart +
\* rangeLength), every window contains at least one sample of the range, and
\* indices outside the range contribute zeros.
C38_WindowsCoverTheRange ==
  (/\ call.made
   /\ call.args.scale \in Scale
   /\ call.args.windowStepSize <= call.args.windowSize
   /\ call.args.samplesLength > call.args.windowSize - call.args.windowStepSize
   /\ ~call.args.isStart /\ ~call.args.isEnd) =>
    LET start == call.args.samplesStart
        L == call.args.samplesLength
        W == call.args.windowSize
        S == call.args.windowStepSize
        r == call.result
    IN /\ ~r.error
       /\ Len(r.windows) = r.windowCount
       /\ \A k \in 0..(r.windowCount - 1) :
            /\ Len(r.windows[k + 1]) = W
            /\ \A j \in 0..(W - 1) :
                 r.windows[k + 1][j + 1] =
                   IF start + k * S + j < start + L THEN start + k * S + j ELSE NULL
            /\ \E j \in 1..W : r.windows[k + 1][j] # NULL
       /\ \A sampleIdx \in start..(start + L - 1) :
            \E k \in 1..r.windowCount, j \in 1..W : r.windows[k][j] = sampleIdx

\* C38 witness: a range that does not start at 0, analysed in several
\* overlapping windows of which the last is padded with zeros
C38_Witness ==
  /\ call.made
  /\ ~call.result.error
  /\ ~call.args.isStart /\ ~call.args.isEnd
  /\ call.args.samplesStart = 1
  /\ call.args.windowStepSize < call.args.windowSize
  /\ call.args.samplesLength > call.args.windowSize
  /\ call.result.windowCount >= 3
  /\ call.result.windows[call.result.windowCount][call.args.windowSize] = NULL
  /\ call.result.windows[call.result.windowCount][1] # NULL

====
